---------------------------- MODULE Spec2Model ----------------------------
(***************************************************************************)
(* A model of the streaming JSON codec TTSDKJSONCodec.c: the encoder       *)
(* (ttsdkjson_beginElement, the add*Element family, the container          *)
(* operations), the sink it writes to, and the decoder (decodeString,      *)
(* decodeElement, ttsdkjson_decode).                                       *)
(*                                                                         *)
(* Bytes are integers 0..255 and every C string or byte range is a         *)
(* sequence of bytes.  A sink call is recorded with the bytes handed to    *)
(* the callback, the status the callback returned and the source line of   *)
(* the addJSONData call that made it.                                      *)
(***************************************************************************)
EXTENDS Integers, Sequences, FiniteSets, TLC

(***************************************************************************)
(* Bounds of the model.                                                    *)
(***************************************************************************)
\* Number of encoder operations followed in one session.
MaxOps == 4
\* Capacity of the per-level isObject record (indices 0..IsObjectSize-1).
IsObjectSize == 4
\* Size of the work buffer of the string escaper.
WorkBufferSize == 4
\* Largest global sink call number at which the sink may start to fail.
MaxFailAt == 6
\* Length of the scratch buffer handed to ttsdkjson_decode.
ScratchLength == 16

(***************************************************************************)
(* Result codes (the enum of TTSDKJSONCodec.h, in the order of spec.md     *)
(* section 6).                                                             *)
(***************************************************************************)
TTSDKJSON_OK == 0
TTSDKJSON_ERROR_INVALID_CHARACTER == 1
TTSDKJSON_ERROR_DATA_TOO_LONG == 2
TTSDKJSON_ERROR_CANNOT_ADD_DATA == 3
TTSDKJSON_ERROR_INCOMPLETE == 4
TTSDKJSON_ERROR_INVALID_DATA == 5

\* A C NULL pointer passed where a string is expected.
NULL == <<-1>>

(***************************************************************************)
(* Bytes.                                                                  *)
(***************************************************************************)
chQuote == 34
chComma == 44
chMinus == 45
chColon == 58
chBackslash == 92
chLBracket == 91
chRBracket == 93
chLBrace == 123
chRBrace == 125
chSpace == 32
chNewline == 10

strTrue == <<116, 114, 117, 101>>
strFalse == <<102, 97, 108, 115, 101>>
strNull == <<110, 117, 108, 108>>
strIndent == <<32, 32, 32, 32>>

\* The values a sink may return besides TTSDKJSON_OK.
SinkErrors == {TTSDKJSON_ERROR_CANNOT_ADD_DATA, TTSDKJSON_ERROR_DATA_TOO_LONG}

\* The result pair of a C function that takes the context by pointer: the
\* context as the function left it and the int it returned.
Ret(c, r) == [c |-> c, r |-> r]

\* `v = x; <rest>`: x is evaluated once and <rest> sees its value.
Let(x, F(_)) == CHOOSE r \in {F(v) : v \in {x}} : TRUE

\* `x = f(...); if (x != OK) return x; <rest>`; <rest> sees the context as f
\* left it.
Then(x, F(_)) == Let(x, LAMBDA v : IF v.r = TTSDKJSON_OK THEN F(v.c) ELSE v)

(***************************************************************************)
(* The sink.  The callback given to ttsdkjson_beginEncode accepts every    *)
(* call (failAt = 0), or rejects call number failAt of the session with    *)
(* `status`, and every later call too when `sticky`.                       *)
(***************************************************************************)
SinkStatus(sink, n) ==
    IF sink.failAt # 0 /\ (n = sink.failAt \/ (sink.sticky /\ n > sink.failAt))
    THEN sink.status
    ELSE TTSDKJSON_OK

\* #define addJSONData(CONTEXT, DATA, LENGTH); `site` is the source line of
\* the call.
addJSONData(c, data, site) ==
    Let(SinkStatus(c.sink, Len(c.log) + 1), LAMBDA st :
        Ret([c EXCEPT !.log = Append(@, [data |-> data, status |-> st, site |-> site])], st))

(***************************************************************************)
(* String escaper.                                                         *)
(***************************************************************************)
\* The switch without the test of the default case: a control byte is copied.
EscapeByte_CopiesControl(b) ==
    CASE b = chBackslash -> <<chBackslash, chBackslash>>
      [] b = chQuote -> <<chBackslash, chQuote>>
      [] b = 8 -> <<chBackslash, 98>>
      [] b = 12 -> <<chBackslash, 102>>
      [] b = 10 -> <<chBackslash, 110>>
      [] b = 13 -> <<chBackslash, 114>>
      [] b = 9 -> <<chBackslash, 116>>
      [] OTHER -> <<b>>

\* The switch of appendEscapedString for one byte; <<>> stands for the
\* early return of TTSDKJSON_ERROR_INVALID_CHARACTER.
EscapeByte(b) ==
    CASE b = chBackslash -> <<chBackslash, chBackslash>>
      [] b = chQuote -> <<chBackslash, chQuote>>
      [] b = 8 -> <<chBackslash, 98>>
      [] b = 12 -> <<chBackslash, 102>>
      [] b = 10 -> <<chBackslash, 110>>
      [] b = 13 -> <<chBackslash, 114>>
      [] b = 9 -> <<chBackslash, 116>>
      [] OTHER -> IF b < chSpace THEN <<>> ELSE <<b>>

RECURSIVE EscapeLoop(_, _, _)
\* Both loops of appendEscapedString: `dst` is the work buffer filled so
\* far; the result is [ok, dst].
EscapeLoop(string, i, dst) ==
    IF i > Len(string) THEN [ok |-> TRUE, dst |-> dst]
    ELSE LET e == EscapeByte(string[i])
         IN  IF e = <<>> THEN [ok |-> FALSE, dst |-> dst]
             ELSE EscapeLoop(string, i + 1, dst \o e)

appendEscapedString(c, string) ==
    Let(EscapeLoop(string, 1, <<>>), LAMBDA w :
        IF ~w.ok THEN Ret(c, TTSDKJSON_ERROR_INVALID_CHARACTER)
        ELSE addJSONData(c, w.dst, 170))

RECURSIVE addEscapedStringFrom_WholeBuffer(_, _, _)
\* The while loop with portions of the size of the work buffer.
addEscapedStringFrom_WholeBuffer(c, string, offset) ==
    IF offset >= Len(string) THEN Ret(c, TTSDKJSON_OK)
    ELSE LET rest == Len(string) - offset
             toAdd == IF rest > WorkBufferSize THEN WorkBufferSize ELSE rest
         IN  Then(appendEscapedString(c, SubSeq(string, offset + 1, offset + toAdd)),
                  LAMBDA d : addEscapedStringFrom_WholeBuffer(d, string, offset + toAdd))

RECURSIVE addEscapedStringFrom(_, _, _)
\* The while loop of addEscapedString from `offset` (0-based) on.
addEscapedStringFrom(c, string, offset) ==
    IF offset >= Len(string) THEN Ret(c, TTSDKJSON_OK)
    ELSE LET rest == Len(string) - offset
             toAdd == IF rest > WorkBufferSize \div 2 THEN WorkBufferSize \div 2 ELSE rest
         IN  Then(appendEscapedString(c, SubSeq(string, offset + 1, offset + toAdd)),
                  LAMBDA d : addEscapedStringFrom(d, string, offset + toAdd))

addEscapedString(c, string) == addEscapedStringFrom(c, string, 0)

\* C's `a || b` on two ints.
LogicalOr(a, b) == IF a # 0 \/ b # 0 THEN 1 ELSE 0

\* addQuotedEscapedString that returns as soon as the body fails.
addQuotedEscapedString_NoClose(c, string) ==
    Then(addJSONData(c, <<chQuote>>, 212), LAMBDA d :
        Then(addEscapedString(d, string), LAMBDA e : addJSONData(e, <<chQuote>>, 216)))

addQuotedEscapedString(c, string) ==
    Then(addJSONData(c, <<chQuote>>, 212), LAMBDA d :
        Let(addEscapedString(d, string), LAMBDA body :
            Let(addJSONData(body.c, <<chQuote>>, 216), LAMBDA close :
                Ret(close.c, LogicalOr(body.r, close.r)))))

(***************************************************************************)
(* Number formatter (integers).                                            *)
(***************************************************************************)
RECURSIVE DecimalDigits(_)
DecimalDigits(n) ==
    IF n < 10 THEN <<48 + n>> ELSE Append(DecimalDigits(n \div 10), 48 + (n % 10))

\* snprintf(buff, buffSize, "%" PRId64, value) followed by checkWriteResult.
formatInt64(value) ==
    IF value < 0 THEN <<chMinus>> \o DecimalDigits(0 - value) ELSE DecimalDigits(value)

\* snprintf(buff, buffSize, "%" PRIu64, value) followed by checkWriteResult.
formatUint64(value) == DecimalDigits(value)

\* A double is carried by its class; a finite one also by the text that
\* snprintf and the trimming of formatDouble leave in the buffer for it.
NaN == [class |-> "nan", text |-> <<>>]
PlusInfinity == [class |-> "inf", text |-> <<>>]
MinusInfinity == [class |-> "-inf", text |-> <<>>]

str1e999 == <<49, 101, 57, 57, 57>>

\* sizeof(buff) in ttsdkjson_addFloatingPointElement
FormatBufferSize == 64

\* checkWriteResult for the bytes snprintf would write in full: [r, buff].
checkWriteResult(text, buffSize) ==
    IF Len(text) >= buffSize THEN [r |-> TTSDKJSON_ERROR_DATA_TOO_LONG, buff |-> <<>>]
    ELSE [r |-> TTSDKJSON_OK, buff |-> text]

\* formatDouble that hands every double to the %g conversion, which prints
\* nan, inf and -inf.
formatDouble_PlainConversion(value, buffSize) ==
    checkWriteResult(CASE value.class = "nan" -> <<110, 97, 110>>
                       [] value.class = "inf" -> <<105, 110, 102>>
                       [] value.class = "-inf" -> <<chMinus, 105, 110, 102>>
                       [] OTHER -> value.text,
                     buffSize)

formatDouble(value, buffSize) ==
    checkWriteResult(CASE value.class = "nan" -> strNull
                       [] value.class = "inf" -> str1e999
                       [] value.class = "-inf" -> <<chMinus>> \o str1e999
                       [] OTHER -> value.text,
                     buffSize)

(***************************************************************************)
(* Encoder state machine.  A context c is the TTSDKJSONEncodeContext plus  *)
(* the sink (callback and what it has been handed so far).                 *)
(***************************************************************************)
RECURSIVE IndentLoop(_, _, _)
\* for (i = 0; i < containerLevel; i++) addJSONData("    ") with early return
IndentLoop(c, k, site) ==
    IF k <= 0 THEN Ret(c, TTSDKJSON_OK)
    ELSE Then(addJSONData(c, strIndent, site), LAMBDA d : IndentLoop(d, k - 1, site))

\* ttsdkjson_beginElement that skips the name of a member when it is null.
ttsdkjson_beginElement_NullNameSkipped(c, name) ==
    LET comma == IF c.containerFirstEntry
                 THEN Ret([c EXCEPT !.containerFirstEntry = FALSE], TTSDKJSON_OK)
                 ELSE addJSONData(c, <<chComma>>, 337)
        pretty == Then(comma, LAMBDA d :
                    IF d.prettyPrint /\ d.containerLevel > 0
                    THEN Then(addJSONData(d, <<chNewline>>, 343),
                              LAMBDA e : IndentLoop(e, e.containerLevel, 345))
                    ELSE Ret(d, TTSDKJSON_OK))
    IN  Then(pretty, LAMBDA d :
            IF d.isObject[d.containerLevel] /\ name # NULL
            THEN Then(addQuotedEscapedString(d, name), LAMBDA e :
                        IF e.prettyPrint THEN addJSONData(e, <<chColon, chSpace>>, 359)
                        ELSE addJSONData(e, <<chColon>>, 363))
            ELSE Ret(d, TTSDKJSON_OK))

ttsdkjson_beginElement(c, name) ==
    LET comma == IF c.containerFirstEntry
                 THEN Ret([c EXCEPT !.containerFirstEntry = FALSE], TTSDKJSON_OK)
                 ELSE addJSONData(c, <<chComma>>, 337)
        pretty == Then(comma, LAMBDA d :
                    IF d.prettyPrint /\ d.containerLevel > 0
                    THEN Then(addJSONData(d, <<chNewline>>, 343),
                              LAMBDA e : IndentLoop(e, e.containerLevel, 345))
                    ELSE Ret(d, TTSDKJSON_OK))
    IN  Then(pretty, LAMBDA d :
            IF d.isObject[d.containerLevel]
            THEN IF name = NULL THEN Ret(d, TTSDKJSON_ERROR_INVALID_DATA)
                 ELSE Then(addQuotedEscapedString(d, name), LAMBDA e :
                        IF e.prettyPrint THEN addJSONData(e, <<chColon, chSpace>>, 359)
                        ELSE addJSONData(e, <<chColon>>, 363))
            ELSE Ret(d, TTSDKJSON_OK))

addFormattedNumber(c, name, buff) ==
    Then(ttsdkjson_beginElement(c, name), LAMBDA d : addJSONData(d, buff, 326))

ttsdkjson_addBooleanElement(c, name, value) ==
    Then(ttsdkjson_beginElement(c, name), LAMBDA d :
        IF value THEN addJSONData(d, strTrue, 379) ELSE addJSONData(d, strFalse, 381))

\* ttsdkjson_addRawJSONData that begins an element first.
ttsdkjson_addRawJSONData_AsElement(c, data) ==
    Then(ttsdkjson_beginElement(c, NULL), LAMBDA d : addJSONData(d, data, 371))

ttsdkjson_addRawJSONData(c, data) == addJSONData(c, data, 371)

ttsdkjson_addFloatingPointElement(c, name, value) ==
    Let(formatDouble(value, FormatBufferSize), LAMBDA f :
        IF f.r # TTSDKJSON_OK THEN Ret(c, f.r)
        ELSE addFormattedNumber(c, name, f.buff))

ttsdkjson_addIntegerElement(c, name, value) ==
    addFormattedNumber(c, name, formatInt64(value))

ttsdkjson_addUIntegerElement(c, name, value) ==
    addFormattedNumber(c, name, formatUint64(value))

ttsdkjson_addNullElement(c, name) ==
    Then(ttsdkjson_beginElement(c, name), LAMBDA d : addJSONData(d, strNull, 416))

ttsdkjson_addStringElement(c, name, value) ==
    IF value = NULL THEN ttsdkjson_addNullElement(c, name)
    ELSE Then(ttsdkjson_beginElement(c, name), LAMBDA d : addQuotedEscapedString(d, value))

ttsdkjson_beginStringElement(c, name) ==
    Then(ttsdkjson_beginElement(c, name), LAMBDA d : addJSONData(d, <<chQuote>>, 435))

ttsdkjson_appendStringElement(c, value) == addEscapedString(c, value)

ttsdkjson_endStringElement(c) == addJSONData(c, <<chQuote>>, 443)

\* The two container opens differ in the kind recorded and the delimiter.
BeginContainer(c, name, isObj) ==
    Then(IF c.containerLevel >= 0 THEN ttsdkjson_beginElement(c, name)
         ELSE Ret(c, TTSDKJSON_OK),
         LAMBDA d :
            LET lvl == d.containerLevel + 1
            IN  IF lvl >= IsObjectSize
                THEN \* isObject[lvl] is a write past the end of the array
                     Ret([d EXCEPT !.containerLevel = lvl, !.ub = TRUE], TTSDKJSON_OK)
                ELSE Let([d EXCEPT !.containerLevel = lvl,
                                   !.isObject[lvl] = isObj,
                                   !.containerFirstEntry = TRUE],
                         LAMBDA e : addJSONData(e, IF isObj THEN <<chLBrace>> ELSE <<chLBracket>>,
                                                IF isObj THEN 510 ELSE 495)))

ttsdkjson_beginArray(c, name) == BeginContainer(c, name, FALSE)

ttsdkjson_beginObject(c, name) == BeginContainer(c, name, TRUE)

\* ttsdkjson_endContainer that leaves containerFirstEntry as it finds it.
ttsdkjson_endContainer_KeepsFirstEntry(c) ==
    IF c.containerLevel <= 0 THEN Ret(c, TTSDKJSON_OK)
    ELSE LET isObj == c.isObject[c.containerLevel]
         IN  Let([c EXCEPT !.containerLevel = @ - 1], LAMBDA d :
                Then(IF d.prettyPrint /\ ~d.containerFirstEntry
                     THEN Then(addJSONData(d, <<chNewline>>, 524),
                               LAMBDA e : IndentLoop(e, e.containerLevel, 526))
                     ELSE Ret(d, TTSDKJSON_OK),
                     LAMBDA e :
                        addJSONData(e,
                                    IF isObj THEN <<chRBrace>> ELSE <<chRBracket>>, 530)))

ttsdkjson_endContainer(c) ==
    IF c.containerLevel <= 0 THEN Ret(c, TTSDKJSON_OK)
    ELSE LET isObj == c.isObject[c.containerLevel]
         IN  Let([c EXCEPT !.containerLevel = @ - 1], LAMBDA d :
                Then(IF d.prettyPrint /\ ~d.containerFirstEntry
                     THEN Then(addJSONData(d, <<chNewline>>, 524),
                               LAMBDA e : IndentLoop(e, e.containerLevel, 526))
                     ELSE Ret(d, TTSDKJSON_OK),
                     LAMBDA e :
                        addJSONData([e EXCEPT !.containerFirstEntry = FALSE],
                                    IF isObj THEN <<chRBrace>> ELSE <<chRBracket>>, 530)))

ttsdkjson_beginEncode(prettyPrint, sink) ==
    [sink |-> sink,
     log |-> <<>>,
     containerLevel |-> 0,
     isObject |-> [i \in 0..(IsObjectSize - 1) |-> FALSE],
     containerFirstEntry |-> TRUE,
     prettyPrint |-> prettyPrint,
     ub |-> FALSE]

\* ttsdkjson_endEncode with an `if` in place of the `while`.
ttsdkjson_endEncode_ClosesOne(c) ==
    IF c.containerLevel > 0 THEN ttsdkjson_endContainer(c) ELSE Ret(c, TTSDKJSON_OK)

RECURSIVE ttsdkjson_endEncode(_)
ttsdkjson_endEncode(c) ==
    IF c.containerLevel > 0
    THEN Then(ttsdkjson_endContainer(c), LAMBDA d : ttsdkjson_endEncode(d))
    ELSE Ret(c, TTSDKJSON_OK)

(***************************************************************************)
(* Decoder.  A decode context d holds the buffer as a sequence `buf` whose  *)
(* byte k is at index k, bufferPtr and bufferEnd as indices (bufferEnd is   *)
(* the index one past the last byte of the window), the lengths of the two  *)
(* scratch buffers, and the callbacks with what they were handed so far.    *)
(* The field `mem` holds what the code leaves to the build and to the       *)
(* memory around its buffers: `past`, the byte that follows the window;    *)
(* `wild`, the unsigned int found before g_hexConversion when the table is *)
(* indexed with a negative char; `trapv`, whether signed overflow traps.   *)
(***************************************************************************)
\* Width, in bits, of the unsigned accumulator of the number parser.
IntBits == 8
ULLONG_MAX == 2 ^ IntBits - 1
LLONG_MAX == 2 ^ (IntBits - 1) - 1

INV == 69905

RECURSIVE BitOr(_, _)
BitOr(a, b) ==
    IF a = 0 THEN b
    ELSE IF b = 0 THEN a
    ELSE 2 * BitOr(a \div 2, b \div 2) + (IF a % 2 = 1 \/ b % 2 = 1 THEN 1 ELSE 0)

\* isspace that does not know the line feed.
isspace_NoLineFeed(ch) == ch \in {32, 9}

\* isspace in the C locale
isspace(ch) == ch \in {32, 9, 10, 11, 12, 13}

isdigit(ch) == ch \in 48..57

isFPChar(ch) == ch \in (48..57) \cup {46, 101, 69, 43, 45}

\* g_hexConversion[ch] for a byte 0..255
g_hexConversion(ch) ==
    IF ch \in 48..57 THEN ch - 48
    ELSE IF ch \in 65..70 THEN ch - 55
    ELSE IF ch \in 97..102 THEN ch - 87
    ELSE INV

\* *p for a pointer p into the window; a pointer at or past bufferEnd reads
\* whatever follows the window in memory, the byte d.mem.past.
ByteAt(d, p) == IF p >= 1 /\ p < d.bufferEnd /\ p <= Len(d.buf) THEN d.buf[p] ELSE d.mem.past

\* g_hexConversion[src[k]]: src[k] is a char, so where char is signed a byte
\* of 0x80 and above is a negative index and the read is outside the table.
HexDigit(d, p) ==
    IF ByteAt(d, p) >= 128 THEN d.mem.wild ELSE g_hexConversion(ByteAt(d, p))

\* (*dst)[0..n-1] = bytes for a destination dst = [buf, ptr]: buf holds the
\* bytes of the buffer written so far and ptr is the position *dst points at.
StoreAt(dst, bytes) ==
    [k \in 1..(IF Len(dst.buf) > dst.ptr + Len(bytes) - 1
               THEN Len(dst.buf) ELSE dst.ptr + Len(bytes) - 1) |->
        IF k >= dst.ptr /\ k < dst.ptr + Len(bytes) THEN bytes[k - dst.ptr + 1] ELSE dst.buf[k]]

\* The stores of writeUTF8 followed by *dst += n.
Written(dst, bytes, n) ==
    [r |-> TTSDKJSON_OK, dst |-> [buf |-> StoreAt(dst, bytes), ptr |-> dst.ptr + n]]

\* writeUTF8 without the limit of RFC 3629: four bytes for whatever is above 0xffff.
writeUTF8_NoUpperLimit(character, dst) ==
    IF character <= 127 THEN Written(dst, <<character>>, 1)
    ELSE IF character <= 2047
         THEN Written(dst, <<192 + (character \div 64), 128 + (character % 64)>>, 2)
    ELSE IF character <= 65535
         THEN Written(dst, <<224 + (character \div 4096), 128 + ((character \div 64) % 64),
                             128 + (character % 64)>>, 3)
    ELSE Written(dst, <<(240 + (character \div 262144)) % 256,
                        128 + ((character \div 4096) % 64),
                        128 + ((character \div 64) % 64), 128 + (character % 64)>>, 4)

\* writeUTF8: [r, dst], dst being the destination after the call.
writeUTF8(character, dst) ==
    IF character <= 127 THEN Written(dst, <<character>>, 1)
    ELSE IF character <= 2047
         THEN Written(dst, <<192 + (character \div 64), 128 + (character % 64)>>, 2)
    ELSE IF character <= 65535
         THEN Written(dst, <<224 + (character \div 4096), 128 + ((character \div 64) % 64),
                             128 + (character % 64)>>, 3)
    ELSE IF character <= 1114111
         THEN Written(dst, <<240 + (character \div 262144), 128 + ((character \div 4096) % 64),
                             128 + ((character \div 64) % 64), 128 + (character % 64)>>, 4)
    ELSE [r |-> TTSDKJSON_ERROR_INVALID_CHARACTER, dst |-> dst]

\* The destination char *dst of decodeString, and the bytes before it.
DstAfter(bytes) == [buf |-> bytes, ptr |-> Len(bytes) + 1]
DstBytes(dst) == SubSeq(dst.buf, 1, dst.ptr - 1)

\* The 16-bit unit of the four hex digits that follow the byte at src.
HexUnit(d, src) ==
    BitOr(BitOr(HexDigit(d, src + 1) * 4096, HexDigit(d, src + 2) * 256),
          BitOr(HexDigit(d, src + 3) * 16, HexDigit(d, src + 4)))

RECURSIVE ScanString(_, _, _)
\* The first loop of decodeString: [src, fastCopy] when it stops.
ScanString(d, src, fastCopy) ==
    IF src < d.bufferEnd /\ ByteAt(d, src) # chQuote
    THEN IF ByteAt(d, src) = chBackslash
         THEN ScanString(d, src + 2, FALSE)
         ELSE ScanString(d, src + 1, fastCopy)
    ELSE [src |-> src, fastCopy |-> fastCopy]

RECURSIVE UnescapeLoop(_, _, _, _)
\* The second loop of decodeString over src..srcEnd-1: [r, dst].
UnescapeLoop(d, src, srcEnd, dst) ==
    IF src >= srcEnd THEN [r |-> TTSDKJSON_OK, dst |-> dst]
    ELSE IF ByteAt(d, src) # chBackslash
         THEN UnescapeLoop(d, src + 1, srcEnd, Append(dst, ByteAt(d, src)))
    ELSE LET s1 == src + 1
             ch == ByteAt(d, s1)
             Plain(b) == UnescapeLoop(d, s1 + 1, srcEnd, Append(dst, b))
             Fail(r) == [r |-> r, dst |-> dst]
         IN  CASE ch = 34 -> Plain(34)
               [] ch = 92 -> Plain(92)
               [] ch = 110 -> Plain(10)
               [] ch = 114 -> Plain(13)
               [] ch = 47 -> Plain(47)
               [] ch = 116 -> Plain(9)
               [] ch = 98 -> Plain(8)
               [] ch = 102 -> Plain(12)
               [] ch = 117 ->
                    IF s1 + 5 > srcEnd THEN Fail(TTSDKJSON_ERROR_INCOMPLETE)
                    ELSE LET accum == HexUnit(d, s1)
                         IN  IF accum > 65535 THEN Fail(TTSDKJSON_ERROR_INVALID_CHARACTER)
                             ELSE IF accum >= 56320 /\ accum <= 57343
                                  THEN Fail(TTSDKJSON_ERROR_INVALID_CHARACTER)
                             ELSE IF accum >= 55296 /\ accum <= 56319
                                  THEN IF s1 + 11 > srcEnd THEN Fail(TTSDKJSON_ERROR_INCOMPLETE)
                                       ELSE IF ByteAt(d, s1 + 5) # 92 \/ ByteAt(d, s1 + 6) # 117
                                            THEN Fail(TTSDKJSON_ERROR_INVALID_CHARACTER)
                                       ELSE LET s2 == s1 + 6
                                                accum2 == HexUnit(d, s2)
                                            IN  IF accum2 < 56320 \/ accum2 > 57343
                                                THEN Fail(TTSDKJSON_ERROR_INVALID_CHARACTER)
                                                ELSE LET u == writeUTF8(
                                                            BitOr((accum - 55296) * 1024, accum2 - 56320),
                                                            DstAfter(dst))
                                                     IN  IF u.r # TTSDKJSON_OK THEN Fail(u.r)
                                                         ELSE UnescapeLoop(d, s2 + 5, srcEnd, DstBytes(u.dst))
                             ELSE LET u == writeUTF8(accum, DstAfter(dst))
                                  IN  IF u.r # TTSDKJSON_OK THEN Fail(u.r)
                                      ELSE UnescapeLoop(d, s1 + 5, srcEnd, DstBytes(u.dst))
               [] OTHER -> Fail(TTSDKJSON_ERROR_INVALID_CHARACTER)

\* A decodeString that lets through a content of dstBufferLength bytes.
decodeString_TooLongByOne(d, dstBufferLength) ==
    IF ByteAt(d, d.bufferPtr) # chQuote
    THEN [d |-> d, r |-> TTSDKJSON_ERROR_INVALID_CHARACTER, dst |-> <<>>]
    ELSE Let(ScanString(d, d.bufferPtr + 1, TRUE), LAMBDA scan :
         LET srcEnd == scan.src
             src == d.bufferPtr + 1
             length == srcEnd - src
         IN  IF srcEnd >= d.bufferEnd
             THEN [d |-> d, r |-> TTSDKJSON_ERROR_INCOMPLETE, dst |-> <<>>]
             ELSE IF length > dstBufferLength
             THEN [d |-> d, r |-> TTSDKJSON_ERROR_DATA_TOO_LONG, dst |-> <<>>]
             ELSE Let([d EXCEPT !.bufferPtr = srcEnd + 1], LAMBDA d2 :
                      IF scan.fastCopy
                      THEN [d |-> d2, r |-> TTSDKJSON_OK,
                            dst |-> [k \in 1..length |-> ByteAt(d, src + k - 1)]]
                      ELSE Let(UnescapeLoop(d, src, srcEnd, <<>>), LAMBDA u :
                               [d |-> d2, r |-> u.r, dst |-> u.dst])))

\* decodeString: [d, r, dst], dst being the bytes stored in dstBuffer before
\* the terminating NUL.
decodeString(d, dstBufferLength) ==
    IF ByteAt(d, d.bufferPtr) # chQuote
    THEN [d |-> d, r |-> TTSDKJSON_ERROR_INVALID_CHARACTER, dst |-> <<>>]
    ELSE Let(ScanString(d, d.bufferPtr + 1, TRUE), LAMBDA scan :
         LET srcEnd == scan.src
             src == d.bufferPtr + 1
             length == srcEnd - src
         IN  IF srcEnd >= d.bufferEnd
             THEN [d |-> d, r |-> TTSDKJSON_ERROR_INCOMPLETE, dst |-> <<>>]
             ELSE IF length >= dstBufferLength
             THEN [d |-> d, r |-> TTSDKJSON_ERROR_DATA_TOO_LONG, dst |-> <<>>]
             ELSE Let([d EXCEPT !.bufferPtr = srcEnd + 1], LAMBDA d2 :
                      IF scan.fastCopy
                      THEN [d |-> d2, r |-> TTSDKJSON_OK,
                            dst |-> [k \in 1..length |-> ByteAt(d, src + k - 1)]]
                      ELSE Let(UnescapeLoop(d, src, srcEnd, <<>>), LAMBDA u :
                               [d |-> d2, r |-> u.r, dst |-> u.dst])))

RECURSIVE CString(_)
\* The C string that starts a buffer: the bytes before the first NUL.
CString(bytes) ==
    IF bytes = <<>> \/ Head(bytes) = 0 THEN <<>> ELSE <<Head(bytes)>> \o CString(Tail(bytes))

(***************************************************************************)
(* The splicer.  The userData of a splicing decode is the                  *)
(* JSONFromFileContext j: the encoder context, closeLastContainer, isEOF,  *)
(* which updateDecoderCallback is installed, and the file as its bytes     *)
(* with the offset of the descriptor (`opened` is false when open() failed *)
(* and every read returns -1).  Two fields record the run for the          *)
(* properties: `lowest`, the smallest containerLevel the encoder has had,  *)
(* and `refills`, one entry for each time updateDecoder_readFile moved     *)
(* the window.                                                             *)
(***************************************************************************)
\* userData of a decode that is no splice.
NoUserData == [update |-> "none"]

\* What a run reports when the encoder has written past its isObject array.
UNDEFINED == -2

\* read(fd, start + remainingLength, fillLength): [bytesRead, bytes].
ReadFile(j, fillLength) ==
    IF ~j.opened THEN [bytesRead |-> -1, bytes |-> <<>>]
    ELSE LET rest == Len(j.file) - j.offset
             n == IF rest < fillLength THEN rest ELSE fillLength
         IN  [bytesRead |-> n, bytes |-> SubSeq(j.file, j.offset + 1, j.offset + n)]

\* updateDecoder_readFile reading to the start of the window, over the tail.
updateDecoder_readFile_OverTail(d) ==
    LET j == d.userData
        bufferLength == d.bufferEnd - 1
        remainingLength == d.bufferEnd - d.bufferPtr
    IN  IF j.isEOF \/ ~(remainingLength < bufferLength \div 2) THEN d
        ELSE LET fillLength == bufferLength - remainingLength
                 got == ReadFile(j, fillLength)
                 tail == SubSeq(d.buf, d.bufferPtr, d.bufferEnd - 1)
                 moved == [k \in 1..Len(d.buf) |->
                             IF k <= Len(got.bytes) THEN got.bytes[k]
                             ELSE IF k <= remainingLength THEN tail[k]
                             ELSE d.buf[k]]
                 origin == [k \in 1..Len(d.buf) |->
                             IF k <= Len(got.bytes) THEN j.offset + k
                             ELSE IF k <= remainingLength THEN j.origin[d.bufferPtr + k - 1]
                             ELSE j.origin[k]]
             IN  [d EXCEPT !.buf = moved,
                           !.bufferPtr = 1,
                           !.userData.offset = @ + Len(got.bytes),
                           !.userData.isEOF = got.bytesRead < fillLength,
                           !.userData.origin = origin,
                           !.userData.refills =
                                Append(@, [tail |-> tail, requested |-> fillLength,
                                           bytesRead |-> got.bytesRead,
                                           offset |-> j.offset, wasEOF |-> j.isEOF,
                                           window |-> moved, origin |-> origin,
                                           bufferPtr |-> 1, bufferEnd |-> d.bufferEnd,
                                           isEOF |-> got.bytesRead < fillLength])]

\* updateDecoder_readFile that never sets isEOF.
updateDecoder_readFile_NeverEOF(d) ==
    LET j == d.userData
        bufferLength == d.bufferEnd - 1
        remainingLength == d.bufferEnd - d.bufferPtr
    IN  IF j.isEOF \/ ~(remainingLength < bufferLength \div 2) THEN d
        ELSE LET fillLength == bufferLength - remainingLength
                 got == ReadFile(j, fillLength)
                 held == remainingLength + Len(got.bytes)
                 tail == SubSeq(d.buf, d.bufferPtr, d.bufferEnd - 1)
                 moved == [k \in 1..Len(d.buf) |->
                             IF k <= remainingLength THEN tail[k]
                             ELSE IF k <= held THEN got.bytes[k - remainingLength]
                             ELSE d.buf[k]]
                 origin == [k \in 1..Len(d.buf) |->
                             IF k <= remainingLength THEN j.origin[d.bufferPtr + k - 1]
                             ELSE IF k <= held THEN j.offset + (k - remainingLength)
                             ELSE j.origin[k]]
             IN  [d EXCEPT !.buf = moved,
                           !.bufferPtr = 1,
                           !.userData.offset = @ + Len(got.bytes),
                           !.userData.isEOF = FALSE,
                           !.userData.origin = origin,
                           !.userData.refills =
                                Append(@, [tail |-> tail, requested |-> fillLength,
                                           bytesRead |-> got.bytesRead,
                                           offset |-> j.offset, wasEOF |-> j.isEOF,
                                           window |-> moved, origin |-> origin,
                                           bufferPtr |-> 1, bufferEnd |-> d.bufferEnd,
                                           isEOF |-> FALSE])]

\* updateDecoder_readFile: the window is d.buf[1..bufferEnd-1], bufferStart
\* is index 1.  j.origin[k] is the offset in the file (from 1) of the byte
\* that window position k holds, 0 while the position was never written.
updateDecoder_readFile(d) ==
    LET j == d.userData
        bufferLength == d.bufferEnd - 1
        remainingLength == d.bufferEnd - d.bufferPtr
    IN  IF j.isEOF \/ ~(remainingLength < bufferLength \div 2) THEN d
        ELSE LET fillLength == bufferLength - remainingLength
                 got == ReadFile(j, fillLength)
                 held == remainingLength + Len(got.bytes)
                 tail == SubSeq(d.buf, d.bufferPtr, d.bufferEnd - 1)
                 moved == [k \in 1..Len(d.buf) |->
                             IF k <= remainingLength THEN tail[k]
                             ELSE IF k <= held THEN got.bytes[k - remainingLength]
                             ELSE d.buf[k]]
                 origin == [k \in 1..Len(d.buf) |->
                             IF k <= remainingLength THEN j.origin[d.bufferPtr + k - 1]
                             ELSE IF k <= held THEN j.offset + (k - remainingLength)
                             ELSE j.origin[k]]
             IN  [d EXCEPT !.buf = moved,
                           !.bufferPtr = 1,
                           !.userData.offset = @ + Len(got.bytes),
                           !.userData.isEOF = got.bytesRead < fillLength,
                           !.userData.origin = origin,
                           !.userData.refills =
                                Append(@, [tail |-> tail, requested |-> fillLength,
                                           bytesRead |-> got.bytesRead,
                                           offset |-> j.offset, wasEOF |-> j.isEOF,
                                           window |-> moved, origin |-> origin,
                                           bufferPtr |-> 1, bufferEnd |-> d.bufferEnd,
                                           isEOF |-> got.bytesRead < fillLength])]

\* context->updateDecoderCallback(context)
updateDecoderCallback(d) ==
    IF d.userData.update = "readFile" THEN updateDecoder_readFile(d) ELSE d

\* The double sscanf reads from a numeral, as formatDouble takes it: the
\* conversions of finite values are not part of the model.
ScannedDouble(value) ==
    [class |-> "finite",
     text |-> (IF Head(value) < 0 THEN <<chMinus>> ELSE <<>>) \o Tail(value)]

\* addJSONFromFile_onEndContainer that ends the container whatever the level.
addJSONFromFile_onEndContainer_AlwaysCloses(j) ==
    ttsdkjson_endContainer(j.encodeContext)

addJSONFromFile_onEndContainer(j) ==
    IF j.closeLastContainer \/ j.encodeContext.containerLevel > 2
    THEN ttsdkjson_endContainer(j.encodeContext)
    ELSE Ret(j.encodeContext, TTSDKJSON_OK)

\* The callbacks addJSONFromFile_on*: the encoder operation, then the update
\* of the decoder; the result is that of the encoder operation.
SpliceCallback(d, cb, name, value) ==
    LET j == d.userData
        enc == j.encodeContext
    IN  IF enc.ub THEN Ret(d, UNDEFINED)
        ELSE IF cb = "onEndData" THEN Ret(d, TTSDKJSON_OK)
        ELSE Let(CASE cb = "onBooleanElement" ->
                        ttsdkjson_addBooleanElement(enc, name, value = <<1>>)
                   [] cb = "onFloatingPointElement" ->
                        ttsdkjson_addFloatingPointElement(enc, name, ScannedDouble(value))
                   [] cb = "onIntegerElement" -> ttsdkjson_addIntegerElement(enc, name, value[1])
                   [] cb = "onUnsignedIntegerElement" ->
                        ttsdkjson_addUIntegerElement(enc, name, value[1])
                   [] cb = "onNullElement" -> ttsdkjson_addNullElement(enc, name)
                   [] cb = "onStringElement" -> ttsdkjson_addStringElement(enc, name, value)
                   [] cb = "onBeginObject" -> ttsdkjson_beginObject(enc, name)
                   [] cb = "onBeginArray" -> ttsdkjson_beginArray(enc, name)
                   [] cb = "onEndContainer" -> addJSONFromFile_onEndContainer(j),
                 LAMBDA x :
                    Ret(updateDecoderCallback(
                            [d EXCEPT !.userData.encodeContext = x.c,
                                      !.userData.lowest =
                                            IF x.c.containerLevel < @ THEN x.c.containerLevel ELSE @,
                                      !.events = Append(@, [cb |-> cb, name |-> name,
                                                            value |-> value])]),
                        IF x.c.ub THEN UNDEFINED ELSE x.r))

\* The callbacks handed to ttsdkjson_decode record what they are given; they
\* return TTSDKJSON_OK, except call number failAt, which returns `status`.
\* The callbacks of a splice are those of the splicer.
Callback(d, cb, name, value) ==
    IF d.userData.update # "none" THEN SpliceCallback(d, cb, name, value)
    ELSE LET n == Len(d.events) + 1
             r == IF d.callbacks.failAt = n THEN d.callbacks.status ELSE TTSDKJSON_OK
         IN  Ret([d EXCEPT !.events = Append(@, [cb |-> cb, name |-> name, value |-> value])], r)

RECURSIVE SkipWhitespace(_)
\* SKIP_WHITESPACE
SkipWhitespace(d) ==
    IF d.bufferPtr < d.bufferEnd /\ isspace(ByteAt(d, d.bufferPtr))
    THEN SkipWhitespace([d EXCEPT !.bufferPtr = @ + 1])
    ELSE d

\* uint64_t arithmetic: the result of an operation, and whether it wrapped.
Overflows(n) == n > ULLONG_MAX

Modulo64(n) == n % (ULLONG_MAX + 1)

RECURSIVE DigitLoop_Unchecked(_, _)
\* The loop without its two overflow tests.
DigitLoop_Unchecked(d, accum) ==
    IF d.bufferPtr < d.bufferEnd /\ isdigit(ByteAt(d, d.bufferPtr))
    THEN LET a10 == Modulo64(accum * 10)
             nextDigit == ByteAt(d, d.bufferPtr) - 48
         IN  Let(DigitLoop_Unchecked([d EXCEPT !.bufferPtr = @ + 1], Modulo64(a10 + nextDigit)),
                 LAMBDA rest :
                    [rest EXCEPT !.wrapped = @ \/ Overflows(accum * 10) \/ Overflows(a10 + nextDigit)])
    ELSE [d |-> d, accum |-> accum, isOverflow |-> FALSE, wrapped |-> FALSE]

RECURSIVE DigitLoop(_, _)
\* The for loop that accumulates the digits: [d, accum, isOverflow, wrapped].
\* `wrapped` records whether accum *= 10 or accum += nextDigit wrapped.
DigitLoop(d, accum) ==
    IF d.bufferPtr < d.bufferEnd /\ isdigit(ByteAt(d, d.bufferPtr))
    THEN IF accum > ULLONG_MAX \div 10
         THEN [d |-> d, accum |-> accum, isOverflow |-> TRUE, wrapped |-> FALSE]
         ELSE LET a10 == Modulo64(accum * 10)
                  nextDigit == ByteAt(d, d.bufferPtr) - 48
              IN  IF a10 > ULLONG_MAX - nextDigit
                  THEN [d |-> d, accum |-> a10, isOverflow |-> TRUE,
                        wrapped |-> Overflows(accum * 10)]
                  ELSE Let(DigitLoop([d EXCEPT !.bufferPtr = @ + 1], Modulo64(a10 + nextDigit)),
                           LAMBDA rest :
                              [rest EXCEPT !.wrapped =
                                    @ \/ Overflows(accum * 10) \/ Overflows(a10 + nextDigit)])
    ELSE [d |-> d, accum |-> accum, isOverflow |-> FALSE, wrapped |-> FALSE]

RECURSIVE SkipFPChars(_)
SkipFPChars(d) ==
    IF d.bufferPtr < d.bufferEnd /\ isFPChar(ByteAt(d, d.bufferPtr))
    THEN SkipFPChars([d EXCEPT !.bufferPtr = @ + 1])
    ELSE d

\* What a run that was stopped by a trap reports instead of a return value.
TRAPPED == -1

\* int64_t signedAccum = -(int64_t)accum, then the callback.  For accum =
\* LLONG_MAX + 1 the operand is LLONG_MIN and its negation overflows: the
\* value wraps to LLONG_MIN, or the build traps and nothing is called.
NegatedInteger(d, name, accum) ==
    IF accum = LLONG_MAX + 1 /\ d.mem.trapv THEN Ret(d, TRAPPED)
    ELSE Callback(d, "onIntegerElement", name, <<0 - accum>>)

\* The number case of decodeElement, from the declaration of accum on.  The
\* double that sscanf reads is represented by the sign and the numeral.
DecodeNumber(name, d0, sign) ==
    Let(DigitLoop(d0, 0), LAMBDA loop :
    LET start == d0.bufferPtr
        d == loop.d
        accum == loop.accum
    IN  IF d.bufferPtr >= d.bufferEnd THEN Ret(d, TTSDKJSON_ERROR_INCOMPLETE)
        ELSE IF ~isFPChar(ByteAt(d, d.bufferPtr)) /\ ~loop.isOverflow
                /\ (sign > 0 \/ accum <= LLONG_MAX + 1)
        THEN IF sign > 0
             THEN IF accum <= LLONG_MAX
                  THEN Callback(d, "onIntegerElement", name, <<accum>>)
                  ELSE Callback(d, "onUnsignedIntegerElement", name, <<accum>>)
             ELSE NegatedInteger(d, name, accum)
        ELSE Let(SkipFPChars(d), LAMBDA e :
             LET len == e.bufferPtr - start
             IN  IF e.bufferPtr >= e.bufferEnd THEN Ret(e, TTSDKJSON_ERROR_INCOMPLETE)
                 ELSE IF len >= e.stringBufferLength THEN Ret(e, TTSDKJSON_ERROR_DATA_TOO_LONG)
                 ELSE Callback(e, "onFloatingPointElement", name,
                               <<sign>> \o [k \in 1..len |-> ByteAt(e, start + k - 1)])))

\* The cases 't', 'f' and 'n': a literal of the given bytes.
DecodeLiteral(name, d, lit, cb, value) ==
    IF d.bufferEnd - d.bufferPtr < Len(lit) THEN Ret(d, TTSDKJSON_ERROR_INCOMPLETE)
    ELSE IF \E k \in 2..Len(lit) : ByteAt(d, d.bufferPtr + k - 1) # lit[k]
    THEN Ret(d, TTSDKJSON_ERROR_INVALID_CHARACTER)
    ELSE Callback([d EXCEPT !.bufferPtr = @ + Len(lit)], cb, name, value)

RECURSIVE decodeElement(_, _)
RECURSIVE ArrayLoop(_)
RECURSIVE ObjectLoop(_)

\* An object loop that consumes '}' without reporting the end of the container.
ObjectLoop_SilentEnd(d0) ==
    IF d0.bufferPtr >= d0.bufferEnd THEN Ret(d0, TTSDKJSON_ERROR_INCOMPLETE)
    ELSE Let(SkipWhitespace(d0), LAMBDA d :
             IF d.bufferPtr >= d.bufferEnd THEN Ret(d, TTSDKJSON_ERROR_INCOMPLETE)
             ELSE IF ByteAt(d, d.bufferPtr) = chRBrace
             THEN Ret([d EXCEPT !.bufferPtr = @ + 1], TTSDKJSON_OK)
             ELSE Let(decodeString(d, d.nameBufferLength), LAMBDA key :
                  IF key.r # TTSDKJSON_OK THEN Ret(key.d, key.r)
                  ELSE Let(SkipWhitespace(key.d), LAMBDA k :
                      IF k.bufferPtr >= k.bufferEnd THEN Ret(k, TTSDKJSON_ERROR_INCOMPLETE)
                      ELSE IF ByteAt(k, k.bufferPtr) # chColon
                      THEN Ret(k, TTSDKJSON_ERROR_INVALID_CHARACTER)
                      ELSE Then(decodeElement(CString(key.dst),
                                              SkipWhitespace([k EXCEPT !.bufferPtr = @ + 1])),
                                LAMBDA e0 :
                                  Let(SkipWhitespace(e0), LAMBDA e :
                                      IF e.bufferPtr >= e.bufferEnd
                                      THEN Ret(e, TTSDKJSON_ERROR_INCOMPLETE)
                                      ELSE IF ByteAt(e, e.bufferPtr) = chComma
                                      THEN ObjectLoop([e EXCEPT !.bufferPtr = @ + 1])
                                      ELSE ObjectLoop(e))))))

\* An array loop that insists on the comma between two elements.
ArrayLoop_CommaRequired(d0) ==
    IF d0.bufferPtr >= d0.bufferEnd THEN Ret(d0, TTSDKJSON_ERROR_INCOMPLETE)
    ELSE Let(SkipWhitespace(d0), LAMBDA d :
             IF d.bufferPtr >= d.bufferEnd THEN Ret(d, TTSDKJSON_ERROR_INCOMPLETE)
             ELSE IF ByteAt(d, d.bufferPtr) = chRBracket
             THEN Callback([d EXCEPT !.bufferPtr = @ + 1], "onEndContainer", NULL, NULL)
             ELSE Then(decodeElement(NULL, d), LAMBDA e0 :
                    Let(SkipWhitespace(e0), LAMBDA e :
                        IF e.bufferPtr >= e.bufferEnd THEN Ret(e, TTSDKJSON_ERROR_INCOMPLETE)
                        ELSE IF ByteAt(e, e.bufferPtr) = chComma
                        THEN Let(SkipWhitespace([e EXCEPT !.bufferPtr = @ + 1]), LAMBDA f :
                                 IF f.bufferPtr < f.bufferEnd /\ ByteAt(f, f.bufferPtr) = chRBracket
                                 THEN Ret(f, TTSDKJSON_ERROR_INVALID_CHARACTER)
                                 ELSE ArrayLoop(f))
                        ELSE IF ByteAt(e, e.bufferPtr) = chRBracket THEN ArrayLoop(e)
                        ELSE Ret(e, TTSDKJSON_ERROR_INVALID_CHARACTER))))

\* while (bufferPtr < bufferEnd) of case '['
ArrayLoop(d0) ==
    IF d0.bufferPtr >= d0.bufferEnd THEN Ret(d0, TTSDKJSON_ERROR_INCOMPLETE)
    ELSE Let(SkipWhitespace(d0), LAMBDA d :
             IF d.bufferPtr >= d.bufferEnd THEN Ret(d, TTSDKJSON_ERROR_INCOMPLETE)
             ELSE IF ByteAt(d, d.bufferPtr) = chRBracket
             THEN Callback([d EXCEPT !.bufferPtr = @ + 1], "onEndContainer", NULL, NULL)
             ELSE Then(decodeElement(NULL, d), LAMBDA e0 :
                    Let(SkipWhitespace(e0), LAMBDA e :
                        IF e.bufferPtr >= e.bufferEnd THEN Ret(e, TTSDKJSON_ERROR_INCOMPLETE)
                        ELSE IF ByteAt(e, e.bufferPtr) = chComma
                        THEN ArrayLoop([e EXCEPT !.bufferPtr = @ + 1])
                        ELSE ArrayLoop(e))))

\* while (bufferPtr < bufferEnd) of case '{'
ObjectLoop(d0) ==
    IF d0.bufferPtr >= d0.bufferEnd THEN Ret(d0, TTSDKJSON_ERROR_INCOMPLETE)
    ELSE Let(SkipWhitespace(d0), LAMBDA d :
             IF d.bufferPtr >= d.bufferEnd THEN Ret(d, TTSDKJSON_ERROR_INCOMPLETE)
             ELSE IF ByteAt(d, d.bufferPtr) = chRBrace
             THEN Callback([d EXCEPT !.bufferPtr = @ + 1], "onEndContainer", NULL, NULL)
             ELSE Let(decodeString(d, d.nameBufferLength), LAMBDA key :
                  IF key.r # TTSDKJSON_OK THEN Ret(key.d, key.r)
                  ELSE Let(SkipWhitespace(key.d), LAMBDA k :
                      IF k.bufferPtr >= k.bufferEnd THEN Ret(k, TTSDKJSON_ERROR_INCOMPLETE)
                      ELSE IF ByteAt(k, k.bufferPtr) # chColon
                      THEN Ret(k, TTSDKJSON_ERROR_INVALID_CHARACTER)
                      ELSE Then(decodeElement(CString(key.dst),
                                              SkipWhitespace([k EXCEPT !.bufferPtr = @ + 1])),
                                LAMBDA e0 :
                                  Let(SkipWhitespace(e0), LAMBDA e :
                                      IF e.bufferPtr >= e.bufferEnd
                                      THEN Ret(e, TTSDKJSON_ERROR_INCOMPLETE)
                                      ELSE IF ByteAt(e, e.bufferPtr) = chComma
                                      THEN ObjectLoop([e EXCEPT !.bufferPtr = @ + 1])
                                      ELSE ObjectLoop(e))))))

decodeElement(name, d0) ==
    Let(SkipWhitespace(d0), LAMBDA d :
    LET ch == ByteAt(d, d.bufferPtr)
    IN  IF d.bufferPtr >= d.bufferEnd THEN Ret(d, TTSDKJSON_ERROR_INCOMPLETE)
        ELSE CASE ch = chLBracket ->
                    Then(Callback([d EXCEPT !.bufferPtr = @ + 1], "onBeginArray", name, NULL),
                         LAMBDA e : ArrayLoop(e))
               [] ch = chLBrace ->
                    Then(Callback([d EXCEPT !.bufferPtr = @ + 1], "onBeginObject", name, NULL),
                         LAMBDA e : ObjectLoop(e))
               [] ch = chQuote ->
                    Let(decodeString(d, d.stringBufferLength), LAMBDA str :
                        IF str.r # TTSDKJSON_OK THEN Ret(str.d, str.r)
                        ELSE Callback(str.d, "onStringElement", name, CString(str.dst)))
               [] ch = 102 -> DecodeLiteral(name, d, strFalse, "onBooleanElement", <<0>>)
               [] ch = 116 -> DecodeLiteral(name, d, strTrue, "onBooleanElement", <<1>>)
               [] ch = 110 -> DecodeLiteral(name, d, strNull, "onNullElement", NULL)
               [] ch = chMinus ->
                    Let([d EXCEPT !.bufferPtr = @ + 1], LAMBDA e :
                        IF ~isdigit(ByteAt(e, e.bufferPtr))
                        THEN Ret(e, TTSDKJSON_ERROR_INVALID_CHARACTER)
                        ELSE DecodeNumber(name, e, -1))
               [] isdigit(ch) -> DecodeNumber(name, d, 1)
               [] OTHER -> Ret(d, TTSDKJSON_ERROR_INVALID_CHARACTER))

\* Callbacks that never fail.
OkCallbacks == [failAt |-> 0, status |-> TTSDKJSON_OK]

\* A decode that reports the end of the data whatever decodeElement returned.
ttsdkjson_decode_AlwaysEndData(data, stringBufferLength, callbacks, mem) ==
    LET nameBufferLength == stringBufferLength \div 4
        context0 == [buf |-> data,
                     bufferPtr |-> 1,
                     bufferEnd |-> Len(data) + 1,
                     nameBufferLength |-> nameBufferLength,
                     stringBufferLength |-> stringBufferLength - nameBufferLength,
                     callbacks |-> callbacks,
                     events |-> <<>>,
                     userData |-> NoUserData,
                     mem |-> mem]
    IN  Let(decodeElement(NULL, context0), LAMBDA x :
        Let(Callback(x.c, "onEndData", NULL, NULL), LAMBDA y :
            [r |-> IF x.r = TTSDKJSON_OK THEN y.r ELSE x.r,
             events |-> y.c.events,
             errorOffset |-> IF x.r # TTSDKJSON_OK \/ y.r # TTSDKJSON_OK THEN 0 ELSE -1,
             stopped |-> y.c.bufferPtr - 1]))

\* ttsdkjson_decode: [r, events, errorOffset, stopped]; errorOffset is -1 when
\* the function left *errorOffset alone, and `stopped` is context.bufferPtr -
\* data when the function returns.
ttsdkjson_decode(data, stringBufferLength, callbacks, mem) ==
    LET nameBufferLength == stringBufferLength \div 4
        context0 == [buf |-> data,
                     bufferPtr |-> 1,
                     bufferEnd |-> Len(data) + 1,
                     nameBufferLength |-> nameBufferLength,
                     stringBufferLength |-> stringBufferLength - nameBufferLength,
                     callbacks |-> callbacks,
                     events |-> <<>>,
                     userData |-> NoUserData,
                     mem |-> mem]
        ptr == 0
    IN  Let(decodeElement(NULL, context0), LAMBDA x :
        Let(IF x.r = TTSDKJSON_OK THEN Callback(x.c, "onEndData", NULL, NULL) ELSE x, LAMBDA y :
            [r |-> y.r,
             events |-> y.c.events,
             errorOffset |-> IF y.r # TTSDKJSON_OK /\ y.r # TRAPPED THEN ptr ELSE -1,
             stopped |-> y.c.bufferPtr - 1]))

(***************************************************************************)
(* ttsdkjson_addJSONFromFile and ttsdkjson_addJSONElement.  The three      *)
(* buffers of the functions are scaled.  The result is [c, r, run]: the    *)
(* encoder context and the int returned, and in `run` the decode context   *)
(* when decodeElement returned, with the lowest containerLevel seen up to  *)
(* the return of the function.                                             *)
(***************************************************************************)
\* sizeof(nameBuffer), sizeof(stringBuffer) of either function, sizeof(fileBuffer)
SpliceNameBufferSize == 4
ElementStringBufferSize == 10
FileStringBufferSize == 6
FileBufferSize == 8

RECURSIVE CloseOpened_ToTopLevel(_, _, _)
\* The closing loop with 0 in place of the level saved on entry.
CloseOpened_ToTopLevel(enc, containerLevel, lowest) ==
    IF ~enc.ub /\ enc.containerLevel > 0
    THEN Let(ttsdkjson_endContainer(enc), LAMBDA x :
             CloseOpened_ToTopLevel(x.c, containerLevel,
                         IF x.c.containerLevel < lowest THEN x.c.containerLevel ELSE lowest))
    ELSE [c |-> enc, lowest |-> lowest]

RECURSIVE CloseOpened(_, _, _)
\* while (closeLastContainer && encodeContext->containerLevel > containerLevel)
\*     ttsdkjson_endContainer(encodeContext);
\* [c, lowest]
CloseOpened(enc, containerLevel, lowest) ==
    IF ~enc.ub /\ enc.containerLevel > containerLevel
    THEN Let(ttsdkjson_endContainer(enc), LAMBDA x :
             CloseOpened(x.c, containerLevel,
                         IF x.c.containerLevel < lowest THEN x.c.containerLevel ELSE lowest))
    ELSE [c |-> enc, lowest |-> lowest]

\* The splice without the closing loop after decodeElement.
SpliceFrom_LeavesOpen(encodeContext, name, d0, closeLastContainer) ==
    Let(decodeElement(name, d0), LAMBDA x :
        [c |-> x.c.userData.encodeContext, r |-> x.r, run |-> x.c])

\* From `int containerLevel = encodeContext->containerLevel` to the return.
SpliceFrom(encodeContext, name, d0, closeLastContainer) ==
    Let(decodeElement(name, d0), LAMBDA x :
    Let(IF closeLastContainer
        THEN CloseOpened(x.c.userData.encodeContext, encodeContext.containerLevel,
                         x.c.userData.lowest)
        ELSE [c |-> x.c.userData.encodeContext, lowest |-> x.c.userData.lowest],
        LAMBDA closed :
            [c |-> closed.c,
             r |-> x.r,
             run |-> [x.c EXCEPT !.userData.encodeContext = closed.c,
                                 !.userData.lowest = closed.lowest]]))

\* The JSONFromFileContext both functions set up.
JSONFromFileContext(encodeContext, closeLastContainer, update, file, opened) ==
    [encodeContext |-> encodeContext,
     closeLastContainer |-> closeLastContainer,
     isEOF |-> FALSE,
     update |-> update,
     file |-> file,
     opened |-> opened,
     offset |-> 0,
     lowest |-> encodeContext.containerLevel,
     origin |-> [k \in 1..FileBufferSize |-> 0],
     refills |-> <<>>]

\* `file` is what the file named holds; `opened` is false when open() fails.
ttsdkjson_addJSONFromFile(encodeContext, name, file, opened, closeLastContainer, mem) ==
    LET decodeContext ==
            [buf |-> [k \in 1..FileBufferSize |-> 0],
             bufferPtr |-> FileBufferSize + 1,
             bufferEnd |-> FileBufferSize + 1,
             nameBufferLength |-> SpliceNameBufferSize,
             stringBufferLength |-> FileStringBufferSize,
             callbacks |-> OkCallbacks,
             events |-> <<>>,
             userData |-> JSONFromFileContext(encodeContext, closeLastContainer,
                                              "readFile", file, opened),
             mem |-> mem]
    IN  Let(updateDecoderCallback(decodeContext), LAMBDA d0 :
            SpliceFrom(encodeContext, name, d0, closeLastContainer))

ttsdkjson_addJSONElement(encodeContext, name, jsonData, closeLastContainer, mem) ==
    LET decodeContext ==
            [buf |-> jsonData,
             bufferPtr |-> 1,
             bufferEnd |-> Len(jsonData) + 1,
             nameBufferLength |-> SpliceNameBufferSize,
             stringBufferLength |-> ElementStringBufferSize,
             callbacks |-> OkCallbacks,
             events |-> <<>>,
             userData |-> JSONFromFileContext(encodeContext, closeLastContainer,
                                              "doNothing", <<>>, TRUE),
             mem |-> mem]
    IN  SpliceFrom(encodeContext, name, decodeContext, closeLastContainer)

(***************************************************************************)
(* Reference serialization, used to state what the encoder is expected to  *)
(* emit.  It is computed from the tree of elements handed to the encoder,  *)
(* kept as a stack of the containers still open, and does not look at the  *)
(* encoder context.                                                        *)
(***************************************************************************)
RECURSIVE RefEscape(_)
\* RFC 8259 escaping of a string free of unescapable control bytes.
RefEscape(s) ==
    IF s = <<>> THEN <<>>
    ELSE LET b == Head(s)
             e == CASE b = 34 -> <<92, 34>>
                    [] b = 92 -> <<92, 92>>
                    [] b = 8 -> <<92, 98>>
                    [] b = 9 -> <<92, 116>>
                    [] b = 10 -> <<92, 110>>
                    [] b = 12 -> <<92, 102>>
                    [] b = 13 -> <<92, 114>>
                    [] OTHER -> <<b>>
         IN  e \o RefEscape(Tail(s))

RefQuoted(s) == <<34>> \o RefEscape(s) \o <<34>>

RECURSIVE JoinComma(_)
JoinComma(kids) ==
    IF kids = <<>> THEN <<>>
    ELSE IF Len(kids) = 1 THEN kids[1]
    ELSE kids[1] \o <<44>> \o JoinComma(Tail(kids))

\* A member of the container `frame`: `"name":value` in an object, the bare
\* value elsewhere.
RefMember(frame, name, value) ==
    IF frame.kind = "object" THEN RefQuoted(name) \o <<58>> \o value ELSE value

RefOpen(kind) == IF kind = "object" THEN <<123>> ELSE <<91>>
RefClose(kind) == IF kind = "object" THEN <<125>> ELSE <<93>>

RECURSIVE RefPartial(_, _)
\* The reference bytes of the open frames i..Len(stack): everything of the
\* document that has been handed to the encoder so far.
RefPartial(stack, i) ==
    LET f == stack[i]
        own == IF f.kind = "string" THEN <<34>> \o f.body ELSE JoinComma(f.kids)
    IN  IF i = Len(stack) THEN own
        ELSE LET g == stack[i + 1]
                 sep == IF f.kids = <<>> THEN <<>> ELSE <<44>>
                 open == IF g.kind = "string" THEN <<>> ELSE RefOpen(g.kind)
             IN  own \o sep \o RefMember(f, g.name, open \o RefPartial(stack, i + 1))

RefTop == [kind |-> "top", name |-> NULL, kids |-> <<>>, body |-> <<>>]

RefAddValue(stack, name, value) ==
    LET n == Len(stack)
    IN  [stack EXCEPT ![n].kids = Append(@, RefMember(stack[n], name, value))]

\* The name is kept only where it is part of the document: inside an object.
RefPush(stack, kind, name) ==
    LET nm == IF stack[Len(stack)].kind = "object" THEN name ELSE NULL
    IN  Append(stack, [kind |-> kind, name |-> nm, kids |-> <<>>, body |-> <<>>])

RefPop(stack) ==
    LET n == Len(stack)
        f == stack[n]
        whole == IF f.kind = "string" THEN <<34>> \o f.body \o <<34>>
                 ELSE RefOpen(f.kind) \o JoinComma(f.kids) \o RefClose(f.kind)
    IN  RefAddValue(SubSeq(stack, 1, n - 1), f.name, whole)

RECURSIVE RefPopAll(_)
RefPopAll(stack) == IF Len(stack) <= 1 THEN stack ELSE RefPopAll(RefPop(stack))

RECURSIVE Concat(_)
\* The bytes of a sequence of sink calls, in call order.
Concat(log) == IF log = <<>> THEN <<>> ELSE Head(log).data \o Concat(Tail(log))

(***************************************************************************)
(* Inputs.                                                                 *)
(***************************************************************************)
\* Element names: none, or "a".
Names == {NULL, <<97>>}
\* String values: none, x LF y, a string with an unescapable control byte.
Strings == {NULL, <<120, 10, 121>>, <<120, 1>>}
\* Pieces handed to appendStringElement.
Pieces == {<<34>>, <<120, 1>>}
\* Signed integer values.
Ints == {-12}
\* The sinks: one that accepts everything, and the failing ones.
OkSink == [failAt |-> 0, status |-> TTSDKJSON_OK, sticky |-> FALSE]
FailingSinks == [failAt : 1..MaxFailAt, status : SinkErrors, sticky : BOOLEAN]

(***************************************************************************)
(* The session: a caller that issues encoder operations one at a time.     *)
(***************************************************************************)
VARIABLES
    context,      \* the TTSDKJSONEncodeContext, its sink and the sink's record
    before,       \* the context when the last operation was called
    lastOp,       \* the last operation: [kind, name, value]
    lastResult,   \* what the last operation returned
    twin,         \* the context of the same operations under the other prettyPrint
    refStack,     \* the elements handed over so far, as open containers
    wellFormed,   \* every operation so far returned TTSDKJSON_OK
    budget,       \* operations the caller may still issue
    input,        \* what a decoding caller holds: the bytes and how they were made
    callbacks,    \* the TTSDKJSONDecodeCallbacks handed to ttsdkjson_decode
    mem,          \* what the build and the memory around the buffers decide
    decoded,      \* what the decoding call returned and reported
    step          \* where the decoding caller is: "input", "edited", "decoded"

encvars == <<context, before, lastOp, lastResult, twin, refStack, wellFormed, budget>>
decvars == <<input, callbacks, mem, decoded, step>>
vars == <<context, before, lastOp, lastResult, twin, refStack, wellFormed, budget,
          input, callbacks, mem, decoded, step>>

NoOp == [kind |-> "beginEncode", name |-> NULL, value |-> NULL]

\* What ttsdkjson_decode reports, before it was called.
NotDecoded == [r |-> TTSDKJSON_OK, events |-> <<>>, errorOffset |-> -1, stopped |-> 0]

\* No decoding caller: the session only encodes.
NoDecoder ==
    /\ input = [kind |-> "none", data |-> <<>>]
    /\ callbacks = OkCallbacks
    /\ mem = [past |-> 0, wild |-> INV, trapv |-> FALSE]
    /\ decoded = NotDecoded
    /\ step = "input"

\* The encoder function an operation record stands for.
Apply(c, op) ==
    CASE op.kind = "beginArray" -> ttsdkjson_beginArray(c, op.name)
      [] op.kind = "beginObject" -> ttsdkjson_beginObject(c, op.name)
      [] op.kind = "endContainer" -> ttsdkjson_endContainer(c)
      [] op.kind = "endEncode" -> ttsdkjson_endEncode(c)
      [] op.kind = "addBooleanElement" -> ttsdkjson_addBooleanElement(c, op.name, op.value)
      [] op.kind = "addNullElement" -> ttsdkjson_addNullElement(c, op.name)
      [] op.kind = "addIntegerElement" -> ttsdkjson_addIntegerElement(c, op.name, op.value)
      [] op.kind = "addUIntegerElement" -> ttsdkjson_addUIntegerElement(c, op.name, op.value)
      [] op.kind = "addStringElement" -> ttsdkjson_addStringElement(c, op.name, op.value)
      [] op.kind = "beginStringElement" -> ttsdkjson_beginStringElement(c, op.name)
      [] op.kind = "appendStringElement" -> ttsdkjson_appendStringElement(c, op.value)
      [] op.kind = "endStringElement" -> ttsdkjson_endStringElement(c)
      [] op.kind = "addFloatingPointElement" ->
            ttsdkjson_addFloatingPointElement(c, op.name, op.value)
      [] op.kind = "addRawJSONData" -> ttsdkjson_addRawJSONData(c, op.value)

\* The reference tree after an operation that returned TTSDKJSON_OK.
RefApply(stack, op) ==
    CASE op.kind = "beginArray" -> RefPush(stack, "array", op.name)
      [] op.kind = "beginObject" -> RefPush(stack, "object", op.name)
      [] op.kind = "endContainer" -> IF Len(stack) > 1 THEN RefPop(stack) ELSE stack
      [] op.kind = "endEncode" -> RefPopAll(stack)
      [] op.kind = "addBooleanElement" ->
            RefAddValue(stack, op.name, IF op.value THEN strTrue ELSE strFalse)
      [] op.kind = "addNullElement" -> RefAddValue(stack, op.name, strNull)
      [] op.kind = "addIntegerElement" -> RefAddValue(stack, op.name, formatInt64(op.value))
      [] op.kind = "addStringElement" ->
            RefAddValue(stack, op.name, IF op.value = NULL THEN strNull ELSE RefQuoted(op.value))
      [] op.kind = "beginStringElement" -> RefPush(stack, "string", op.name)
      [] op.kind = "appendStringElement" ->
            [stack EXCEPT ![Len(stack)].body = @ \o RefEscape(op.value)]
      [] op.kind = "endStringElement" -> RefPop(stack)
      [] op.kind = "addFloatingPointElement" ->
            RefAddValue(stack, op.name, formatDouble(op.value, FormatBufferSize).buff)
      [] op.kind = "addRawJSONData" -> stack

\* A streamed string element is open: only append and end are legal.
InString == refStack[Len(refStack)].kind = "string"

Do(op) ==
    /\ budget > 0
    /\ ~context.ub
    /\ \E x \in {Apply(context, op)} :
          LET ok == x.r = TTSDKJSON_OK /\ ~x.c.ub
          IN  /\ context' = x.c
              /\ lastResult' = x.r
              /\ wellFormed' = (wellFormed /\ ok)
              /\ refStack' = IF wellFormed /\ ok THEN RefApply(refStack, op) ELSE refStack
    /\ before' = context
    /\ lastOp' = op
    /\ twin' = Apply(twin, op).c
    /\ budget' = IF op.kind = "endEncode" THEN 0 ELSE budget - 1
    /\ UNCHANGED decvars

BeginArray ==
    /\ ~InString
    /\ \E name \in Names : Do([kind |-> "beginArray", name |-> name, value |-> NULL])

BeginObject ==
    /\ ~InString
    /\ \E name \in Names : Do([kind |-> "beginObject", name |-> name, value |-> NULL])

EndContainer ==
    /\ ~InString
    /\ Do([kind |-> "endContainer", name |-> NULL, value |-> NULL])

EndEncode ==
    /\ ~InString
    /\ Do([kind |-> "endEncode", name |-> NULL, value |-> NULL])

AddBooleanElement ==
    /\ ~InString
    /\ \E name \in Names, value \in BOOLEAN :
          Do([kind |-> "addBooleanElement", name |-> name, value |-> value])

AddNullElement ==
    /\ ~InString
    /\ \E name \in Names : Do([kind |-> "addNullElement", name |-> name, value |-> NULL])

AddIntegerElement ==
    /\ ~InString
    /\ \E name \in Names, value \in Ints :
          Do([kind |-> "addIntegerElement", name |-> name, value |-> value])

AddStringElement ==
    /\ ~InString
    /\ \E name \in Names, value \in Strings :
          Do([kind |-> "addStringElement", name |-> name, value |-> value])

BeginStringElement ==
    /\ ~InString
    /\ \E name \in Names : Do([kind |-> "beginStringElement", name |-> name, value |-> NULL])

AppendStringElement ==
    /\ InString
    /\ \E value \in Pieces : Do([kind |-> "appendStringElement", name |-> NULL, value |-> value])

EndStringElement ==
    /\ InString
    /\ Do([kind |-> "endStringElement", name |-> NULL, value |-> NULL])

\* ttsdkjson_beginEncode with the given sinks, then nothing issued yet.
InitWith(sinks, n) ==
    /\ \E prettyPrint \in BOOLEAN, sink \in sinks :
          /\ context = ttsdkjson_beginEncode(prettyPrint, sink)
          /\ twin = ttsdkjson_beginEncode(~prettyPrint, sink)
    /\ before = context
    /\ lastOp = NoOp
    /\ lastResult = TTSDKJSON_OK
    /\ refStack = <<RefTop>>
    /\ wellFormed = TRUE
    /\ budget = n
    /\ NoDecoder

Init == InitWith({OkSink}, MaxOps)

Next ==
    \/ BeginArray
    \/ BeginObject
    \/ EndContainer
    \/ EndEncode
    \/ AddBooleanElement
    \/ AddNullElement
    \/ AddIntegerElement
    \/ AddStringElement
    \/ BeginStringElement
    \/ AppendStringElement
    \/ EndStringElement

\* Sessions whose sink accepts everything.
Spec == Init /\ [][Next]_vars

\* Sessions whose sink rejects one call, or every call from some call on.
MaxOpsSink == 3
InitSink == InitWith(FailingSinks, MaxOpsSink)
SpecSink == InitSink /\ [][Next]_vars

(***************************************************************************)
(* Vocabulary of the properties.                                           *)
(***************************************************************************)
\* The sink calls made by the last operation, as indices of the record.
OpCalls == (Len(before.log) + 1)..Len(context.log)

\* What a sink call carries, by the addJSONData call that made it.
IsComma(e) == e.site = 337
IsWhitespace(e) == e.site \in {343, 345, 524, 526}
IsOpenDelimiter(e) == e.site \in {495, 510}
IsCloseDelimiter(e) == e.site = 530

\* The operations that begin with ttsdkjson_beginElement.
ElementKinds == {"beginArray", "beginObject", "addBooleanElement", "addNullElement",
                 "addIntegerElement", "addStringElement", "beginStringElement"}

\* The last operation was issued with a null name inside an object.
NullNameInObject ==
    /\ lastOp.kind \in ElementKinds
    /\ lastOp.name = NULL
    /\ before.isObject[before.containerLevel]

\* The first non-OK status the sink returned during the last operation
\* (TTSDKJSON_OK when it accepted every call).
RECURSIVE FirstRejection(_)
FirstRejection(i) ==
    IF i > Len(context.log) THEN TTSDKJSON_OK
    ELSE IF context.log[i].status # TTSDKJSON_OK THEN context.log[i].status
    ELSE FirstRejection(i + 1)

RECURSIVE Nested(_, _)
\* The delimiters of a record of sink calls close in last-opened-first-closed
\* order with the matching kind, and none stays open; `open` is the stack of
\* delimiters still open.
Nested(log, open) ==
    IF log = <<>> THEN open = <<>>
    ELSE LET e == Head(log)
         IN  IF IsOpenDelimiter(e) THEN Nested(Tail(log), <<e.data[1]>> \o open)
             ELSE IF IsCloseDelimiter(e)
                  THEN /\ open # <<>>
                       /\ e.data[1] = (IF Head(open) = chLBrace THEN chRBrace ELSE chRBracket)
                       /\ Nested(Tail(log), Tail(open))
                  ELSE Nested(Tail(log), open)

RECURSIVE HoldsElement(_, _)
\* Walking the record backwards from call i: some call other than whitespace
\* and commas lies between call i and the opening delimiter of the innermost
\* container open at i (a nested container, closed or not, is such a call).
HoldsElement(log, i) ==
    IF i < 1 THEN FALSE
    ELSE LET e == log[i]
         IN  IF IsWhitespace(e) \/ IsComma(e) THEN HoldsElement(log, i - 1)
             ELSE ~IsOpenDelimiter(e)

\* C1: with prettyPrint off and an accepting sink, a well-formed sequence of
\* operations has emitted exactly the whitespace-free reference serialization
\* of the elements handed over.
C1_CompactMatchesReference ==
    (wellFormed /\ ~context.prettyPrint) => Concat(context.log) = RefPartial(refStack, 1)

\* A closed object with two members has been emitted: name, colon, value,
\* comma between the siblings.
C1_Witness ==
    /\ wellFormed
    /\ ~context.prettyPrint
    /\ lastOp.kind = "endContainer"
    /\ context.containerLevel = 0
    /\ Len(refStack[1].kids) = 1
    /\ \E i \in 1..Len(context.log) : IsComma(context.log[i])
    /\ \E i \in 1..Len(context.log) : context.log[i].site = 363

\* C2: in the calls made to the sink, a comma is never the token directly
\* before a closing delimiter nor directly after an opening delimiter.
C2_NoCommaNextToDelimiter ==
    \A i \in 1..Len(context.log), j \in 1..Len(context.log) :
        (i < j /\ \A k \in (i + 1)..(j - 1) : IsWhitespace(context.log[k])) =>
            /\ ~(IsComma(context.log[i]) /\ IsCloseDelimiter(context.log[j]))
            /\ ~(IsOpenDelimiter(context.log[i]) /\ IsComma(context.log[j]))

\* C3: when endEncode returns, containerLevel is 0 and the delimiters emitted
\* are balanced and properly nested.
C3_EndEncodeBalances ==
    lastOp.kind = "endEncode" =>
        /\ context.containerLevel = 0
        /\ Nested(context.log, <<>>)

\* endEncode has closed an object nested in an array.
C3_Witness ==
    /\ lastOp.kind = "endEncode"
    /\ before.containerLevel >= 2
    /\ before.isObject[2]
    /\ ~before.isObject[1]

\* The string handed to the last operation holds a byte the escaper refuses.
RefusedByEscaper ==
    /\ lastOp.kind \in {"addStringElement", "appendStringElement"}
    /\ \E k \in 1..Len(lastOp.value) : EscapeByte(lastOp.value[k]) = <<>>

\* C4: an operation during which the sink returned a non-OK status returns
\* exactly that status (stated for the operations in which the sink's
\* rejection is the only failure).
C4_SinkStatusReturned ==
    (/\ lastOp.kind \in (ElementKinds \cup {"appendStringElement", "endStringElement"})
     /\ ~RefusedByEscaper) =>
        \A i \in OpCalls :
            context.log[i].status # TTSDKJSON_OK => lastResult = context.log[i].status

\* C5: endContainer on an open container always hands the closing delimiter
\* to the sink and returns the first non-OK status it saw.
C5_CloseAlwaysAttempted ==
    (lastOp.kind = "endContainer" /\ before.containerLevel > 0) =>
        /\ \E i \in OpCalls :
              /\ IsCloseDelimiter(context.log[i])
              /\ context.log[i].data =
                    (IF before.isObject[before.containerLevel] THEN <<chRBrace>> ELSE <<chRBracket>>)
        /\ lastResult = FirstRejection(Len(before.log) + 1)

\* C6: once the sink has accepted the opening quote of a quoted string, the
\* closing quote is handed to the sink later in the same operation.
C6_QuoteAlwaysClosed ==
    \A i \in OpCalls :
        (context.log[i].site = 212 /\ context.log[i].status = TTSDKJSON_OK) =>
            \E j \in OpCalls : j > i /\ context.log[j].site = 216

\* The sink accepted an opening quote, rejected a chunk of the body and was
\* then handed the closing quote.
C6_Witness ==
    \E i \in OpCalls, j \in OpCalls, k \in OpCalls :
        /\ i < j /\ j < k
        /\ context.log[i].site = 212 /\ context.log[i].status = TTSDKJSON_OK
        /\ context.log[j].site = 170 /\ context.log[j].status # TTSDKJSON_OK
        /\ context.log[k].site = 216

\* No call of the last operation carries a value or an opening delimiter.
NoValueEmitted ==
    \A i \in OpCalls : IsComma(context.log[i]) \/ IsWhitespace(context.log[i])

C8_LevelWithinCapacity ==
    context.containerLevel \in 0..(IsObjectSize - 1)

\* C9: in pretty-print mode endContainer emits the newline before the closing
\* delimiter if and only if the container being closed holds an element.
C9_NewlineIffNonEmpty ==
    (lastOp.kind = "endContainer" /\ before.containerLevel > 0 /\ context.prettyPrint) =>
        ((\E i \in OpCalls : context.log[i].site = 524)
            <=> HoldsElement(before.log, Len(before.log)))

\* The bytes that may follow the input in memory.
PastBytes == {0, 48}

\* A build in which char is unsigned and signed overflow wraps, with the given
\* byte after the input.
PlainMemory(past) == [past |-> past, wild |-> INV, trapv |-> FALSE]

\* What a decode of the bytes handed to a sink reports: result code and
\* callbacks.
Decoded(c, past) ==
    LET x == ttsdkjson_decode(Concat(c.log), ScratchLength, OkCallbacks, PlainMemory(past))
    IN  [r |-> x.r, events |-> x.events]

\* C10: the output of a well-formed sequence of operations decodes to the same
\* result code and the same callbacks, names and values whether prettyPrint
\* was on or off.
C10_PrettyDecodesAlike ==
    wellFormed => \A past \in PastBytes : Decoded(context, past) = Decoded(twin, past)

\* A complete document with a named member and a nested container, whose two
\* forms differ and decode.
C10_Witness ==
    /\ wellFormed
    /\ context.prettyPrint
    /\ Len(context.log) > Len(twin.log)
    /\ LET x == Decoded(context, 0)
       IN  /\ x.r = TTSDKJSON_OK
           /\ Len(x.events) >= 5
           /\ \E k \in 1..Len(x.events) : x.events[k].name # NULL

(***************************************************************************)
(* Round trip: a caller encodes one value, alone or as the only element of *)
(* an array or object, ends the encoding and decodes the bytes the sink    *)
(* received.                                                                *)
(***************************************************************************)
\* Strings without control bytes: empty, plain, with a quote, with a
\* backslash and a slash, with a two-byte UTF-8 character, with DEL.
RoundTripStrings == {<<>>, <<97, 98>>, <<97, 34, 98>>, <<92, 47>>, <<195, 169>>, <<127>>}

\* The values of the round trip, each held the way a decoder callback
\* receives it.
RoundTripValues ==
    [kind : {"boolean"}, value : {<<0>>, <<1>>}]
        \cup [kind : {"null"}, value : {NULL}]
        \cup [kind : {"string"}, value : RoundTripStrings]
        \cup [kind : {"int64"}, value : {<<v>> : v \in (0 - LLONG_MAX - 1)..LLONG_MAX}]
        \cup [kind : {"uint64"}, value : {<<v>> : v \in 0..ULLONG_MAX}]

\* Where the value is put: alone, in an array, or as member "a" of an object.
Wraps == {"top", "array", "object"}

\* The add*Element call that encodes a value.
ValueOp(v, name) ==
    CASE v.kind = "boolean" ->
            [kind |-> "addBooleanElement", name |-> name, value |-> v.value = <<1>>]
      [] v.kind = "null" -> [kind |-> "addNullElement", name |-> name, value |-> NULL]
      [] v.kind = "string" -> [kind |-> "addStringElement", name |-> name, value |-> v.value]
      [] v.kind = "int64" -> [kind |-> "addIntegerElement", name |-> name, value |-> v.value[1]]
      [] v.kind = "uint64" -> [kind |-> "addUIntegerElement", name |-> name, value |-> v.value[1]]

\* The encoder calls of the round trip, ttsdkjson_endEncode last.
EncodeValue(c, v, wrap) ==
    LET open == CASE wrap = "top" -> Ret(c, TTSDKJSON_OK)
                  [] wrap = "array" -> ttsdkjson_beginArray(c, NULL)
                  [] wrap = "object" -> ttsdkjson_beginObject(c, NULL)
    IN  Then(open, LAMBDA d :
            Then(Apply(d, ValueOp(v, IF wrap = "object" THEN <<97>> ELSE NULL)),
                 LAMBDA e : ttsdkjson_endEncode(e)))

\* Builds of the decoder that differ in the byte after the input and in
\* whether signed overflow traps.
RoundTripMemories == [past : {0, 48}, wild : {INV}, trapv : BOOLEAN]

InitRoundTrip ==
    /\ \E prettyPrint \in BOOLEAN :
          /\ context = ttsdkjson_beginEncode(prettyPrint, OkSink)
          /\ twin = ttsdkjson_beginEncode(prettyPrint, OkSink)
    /\ before = context
    /\ lastOp = NoOp
    /\ lastResult = TTSDKJSON_OK
    /\ refStack = <<RefTop>>
    /\ wellFormed = TRUE
    /\ budget = 0
    /\ \E v \in RoundTripValues, wrap \in Wraps :
          input = [kind |-> "value", data |-> <<>>, value |-> v, wrap |-> wrap]
    /\ callbacks = OkCallbacks
    /\ mem \in RoundTripMemories
    /\ decoded = NotDecoded
    /\ step = "input"

\* The caller encodes the value.
Encode ==
    /\ step = "input"
    /\ \E x \in {EncodeValue(context, input.value, input.wrap)} :
          /\ context' = x.c
          /\ lastResult' = x.r
          /\ input' = [input EXCEPT !.data = Concat(x.c.log)]
    /\ step' = "encoded"
    /\ UNCHANGED <<before, lastOp, twin, refStack, wellFormed, budget, callbacks, mem, decoded>>

\* The caller hands the bytes it holds to ttsdkjson_decode.
Decode ==
    /\ step \in {"encoded", "edited", "input"}
    /\ input.kind # "value" \/ step = "encoded"
    /\ decoded' = ttsdkjson_decode(input.data, ScratchLength, callbacks, mem)
    /\ step' = "decoded"
    /\ UNCHANGED <<encvars, input, callbacks, mem>>

NextRoundTrip ==
    \/ Encode
    \/ Decode

SpecRoundTrip == InitRoundTrip /\ [][NextRoundTrip]_vars

\* The callbacks that may deliver a value of the given kind.
ValueCallbacks(kind) ==
    CASE kind = "boolean" -> {"onBooleanElement"}
      [] kind = "null" -> {"onNullElement"}
      [] kind = "string" -> {"onStringElement"}
      [] kind \in {"int64", "uint64"} -> {"onIntegerElement", "onUnsignedIntegerElement"}

\* C11: encoding a boolean, a null, a string without control bytes, an int64
\* or a uint64 and decoding the emitted bytes returns OK and delivers the same
\* value through a value callback.
C11_RoundTrip ==
    (step = "decoded" /\ input.kind = "value") =>
        /\ decoded.r = TTSDKJSON_OK
        /\ \E k \in 1..Len(decoded.events) :
              /\ decoded.events[k].cb \in ValueCallbacks(input.value.kind)
              /\ decoded.events[k].value = input.value.value

(***************************************************************************)
(* Decoding: a caller holds a well-formed document, may cut it short or    *)
(* edit one comma, and hands the bytes to ttsdkjson_decode.                 *)
(***************************************************************************)
\* Callbacks may fail up to this call number.
MaxFailCallback == 4

\* Well-formed documents, none with whitespace after its last token.
Documents ==
    {
        <<91, 49, 44, 50, 93>>,   \* [1,2]
        <<123, 34, 97, 34, 58, 91, 116, 114, 117, 101, 44, 110, 117, 108, 108, 93, 44, 34, 98, 34, 58, 34, 120, 34, 125>>,   \* {"a":[true,null],"b":"x"}
        <<91, 45, 49, 44, 48, 46, 53, 93>>,   \* [-1,0.5]
        <<91, 34, 97, 92, 34, 98, 34, 44, 102, 97, 108, 115, 101, 93>>,   \* ["a\"b",false]
        <<123, 34, 107, 34, 58, 123, 34, 110, 34, 58, 45, 51, 44, 34, 109, 34, 58, 91, 93, 125, 125>>,   \* {"k":{"n":-3,"m":[]}}
        <<34, 97, 98, 34>>,   \* "ab"
        <<116, 114, 117, 101>>,   \* true
        <<91, 91, 49, 44, 50, 93, 44, 91, 51, 93, 93>>,   \* [[1,2],[3]]
        <<49, 50>>    \* 12
    }

\* The non-OK statuses a callback returns in the model.
CallbackErrors == {TTSDKJSON_ERROR_INVALID_DATA, TTSDKJSON_ERROR_CANNOT_ADD_DATA}

\* Callbacks whose call number failAt returns an error.
FailingCallbacks == [failAt : 1..MaxFailCallback, status : CallbackErrors]

RECURSIVE InsideString(_, _, _, _)
\* Walking doc from byte k, with `inside` telling whether byte k lies inside
\* a string: does byte i?
InsideString(doc, i, k, inside) ==
    IF k >= i THEN inside
    ELSE IF inside /\ doc[k] = chBackslash THEN InsideString(doc, i, k + 2, TRUE)
    ELSE IF doc[k] = chQuote THEN InsideString(doc, i, k + 1, ~inside)
    ELSE InsideString(doc, i, k + 1, inside)

\* Byte i of doc is a comma that separates two siblings.
IsSeparator(doc, i) == doc[i] = chComma /\ ~InsideString(doc, i, 1, FALSE)

\* Byte i of doc closes a container that holds an element.
ClosesNonEmpty(doc, i) ==
    /\ doc[i] \in {chRBracket, chRBrace}
    /\ ~InsideString(doc, i, 1, FALSE)
    /\ doc[i - 1] \notin {chLBracket, chLBrace}

InitDecode ==
    /\ context = ttsdkjson_beginEncode(FALSE, OkSink)
    /\ twin = context
    /\ before = context
    /\ lastOp = NoOp
    /\ lastResult = TTSDKJSON_OK
    /\ refStack = <<RefTop>>
    /\ wellFormed = TRUE
    /\ budget = 0
    /\ \E doc \in Documents : input = [kind |-> "document", data |-> doc, doc |-> doc, edit |-> "none"]
    /\ callbacks \in {OkCallbacks} \cup FailingCallbacks
    /\ mem \in {PlainMemory(past) : past \in PastBytes}
    /\ decoded = NotDecoded
    /\ step = "input"

\* The caller keeps a proper prefix of the document.
Truncate ==
    /\ step = "input"
    /\ input.kind = "document"
    /\ \E n \in 0..(Len(input.doc) - 1) :
          input' = [input EXCEPT !.data = SubSeq(input.doc, 1, n), !.edit = "prefix"]
    /\ step' = "edited"
    /\ UNCHANGED <<encvars, callbacks, mem, decoded>>

\* The caller replaces a separating comma by a whitespace byte.
CommaToSpace ==
    /\ step = "input"
    /\ input.kind = "document"
    /\ \E i \in 1..Len(input.doc), ws \in {32, 9, 10, 13} :
          /\ IsSeparator(input.doc, i)
          /\ input' = [input EXCEPT !.data = [input.doc EXCEPT ![i] = ws],
                                    !.edit = "commaToSpace"]
    /\ step' = "edited"
    /\ UNCHANGED <<encvars, callbacks, mem, decoded>>

\* The caller adds a comma after the last element of a container.
TrailingComma ==
    /\ step = "input"
    /\ input.kind = "document"
    /\ \E i \in 2..Len(input.doc) :
          /\ ClosesNonEmpty(input.doc, i)
          /\ input' = [input EXCEPT !.data = SubSeq(input.doc, 1, i - 1) \o <<chComma>>
                                              \o SubSeq(input.doc, i, Len(input.doc)),
                                    !.edit = "trailingComma"]
    /\ step' = "edited"
    /\ UNCHANGED <<encvars, callbacks, mem, decoded>>

NextDecode ==
    \/ Truncate
    \/ CommaToSpace
    \/ TrailingComma
    \/ Decode

SpecDecode == InitDecode /\ [][NextDecode]_vars

\* C12: once a decoder callback has returned a non-OK status, no further
\* callback is invoked and ttsdkjson_decode returns that status.
C12_FirstCallbackErrorStops ==
    (step = "decoded" /\ callbacks.failAt > 0 /\ Len(decoded.events) >= callbacks.failAt) =>
        /\ Len(decoded.events) = callbacks.failAt
        /\ decoded.r = callbacks.status

\* What the same input decodes to when every callback returns OK.
Undisturbed == ttsdkjson_decode(input.data, ScratchLength, OkCallbacks, mem)

\* A callback inside a container failed while tokens, the end of the
\* enclosing containers and the end of the data were still to be reported.
C12_Witness ==
    /\ step = "decoded"
    /\ callbacks.failAt >= 2
    /\ Len(decoded.events) = callbacks.failAt
    /\ decoded.r = callbacks.status
    /\ Undisturbed.r = TTSDKJSON_OK
    /\ Len(Undisturbed.events) >= callbacks.failAt + 3

\* C13: when ttsdkjson_decode returns a non-OK status, *errorOffset is the
\* offset of the decoder's read position when parsing stopped.
C13_ErrorOffsetIsReadPosition ==
    (step = "decoded" /\ decoded.r \notin {TTSDKJSON_OK, TRAPPED}) =>
        decoded.errorOffset = decoded.stopped

\* C14: a proper prefix of a well-formed document decodes to Incomplete.
C14_PrefixIsIncomplete ==
    (step = "decoded" /\ input.kind = "document" /\ input.edit = "prefix"
        /\ callbacks = OkCallbacks) =>
        decoded.r = TTSDKJSON_ERROR_INCOMPLETE

\* What the unedited document decodes to with the same callbacks.
Unedited == ttsdkjson_decode(input.doc, ScratchLength, callbacks, mem)

\* C15: with a separating comma replaced by whitespace, or a comma added
\* after the last element of a container, the input decodes with OK and with
\* the callback sequence of the original.
C15_CommasOptional ==
    (step = "decoded" /\ input.kind = "document"
        /\ input.edit \in {"commaToSpace", "trailingComma"}) =>
        /\ decoded.r = Unedited.r
        /\ decoded.events = Unedited.events
        /\ callbacks = OkCallbacks => decoded.r = TTSDKJSON_OK

\* An object nested in an object was decoded with the comma between its two
\* members replaced by whitespace.
C15_Witness ==
    /\ step = "decoded"
    /\ input.edit = "commaToSpace"
    /\ callbacks = OkCallbacks
    /\ decoded.r = TTSDKJSON_OK
    /\ \E k \in 1..Len(decoded.events) : decoded.events[k].cb = "onBeginObject"
    /\ Len(decoded.events) >= 7

(***************************************************************************)
(* Number tokens: the input is an optional '-', the decimal digits of a    *)
(* magnitude that fits the unsigned accumulator, and then either one more  *)
(* byte or the end of the input.                                            *)
(***************************************************************************)
\* Bytes that end a number token: space, ']', ',', NUL, 'x'.
Followers == {32, 93, 44, 0, 120}

\* The choice "the numeral is the last thing in the input".
NoFollower == -1

NumberText(negative, m, follower) ==
    (IF negative THEN <<chMinus>> ELSE <<>>)
        \o formatUint64(m)
        \o (IF follower = NoFollower THEN <<>> ELSE <<follower>>)

NumberMemories == [past : PastBytes, wild : {INV}, trapv : BOOLEAN]

InitNumber ==
    /\ context = ttsdkjson_beginEncode(FALSE, OkSink)
    /\ twin = context
    /\ before = context
    /\ lastOp = NoOp
    /\ lastResult = TTSDKJSON_OK
    /\ refStack = <<RefTop>>
    /\ wellFormed = TRUE
    /\ budget = 0
    /\ \E negative \in BOOLEAN, m \in 0..ULLONG_MAX, follower \in Followers \cup {NoFollower} :
          input = [kind |-> "number", data |-> NumberText(negative, m, follower),
                   negative |-> negative, m |-> m, follower |-> follower]
    /\ callbacks = OkCallbacks
    /\ mem \in NumberMemories
    /\ decoded = NotDecoded
    /\ step = "input"

NextNumber == Decode

SpecNumber == InitNumber /\ [][NextNumber]_vars

\* The callback the number token of the input is expected to reach.
ExpectedNumberCallback ==
    IF ~input.negative
    THEN IF input.m <= LLONG_MAX THEN "onIntegerElement" ELSE "onUnsignedIntegerElement"
    ELSE IF input.m <= LLONG_MAX + 1 THEN "onIntegerElement" ELSE "onFloatingPointElement"

\* The integer it is expected to be called with.
ExpectedInteger == IF input.negative THEN <<0 - input.m>> ELSE <<input.m>>

\* The decode reported exactly the expected callback for the number, then
\* the end of the data, and returned OK.
NumberDelivered ==
    /\ decoded.r = TTSDKJSON_OK
    /\ Len(decoded.events) = 2
    /\ decoded.events[1].cb = ExpectedNumberCallback
    /\ ExpectedNumberCallback # "onFloatingPointElement" =>
            decoded.events[1].value = ExpectedInteger
    /\ decoded.events[2].cb = "onEndData"

C17_BareIntegerDecodes ==
    (step = "decoded" /\ input.kind = "number" /\ input.follower = NoFollower
        /\ ExpectedNumberCallback # "onFloatingPointElement") =>
        NumberDelivered

(***************************************************************************)
(* \u escapes.  The input is one string element, "...", whose body holds   *)
(* an escape pair, a trail surrogate on its own, a lead surrogate followed *)
(* by six other bytes, or an escape with a byte that is no hexadecimal     *)
(* digit among its four digits.  The bytes '"' and '\' are not used as     *)
(* such a byte: they move the end of the string itself.                    *)
(***************************************************************************)
Leads == {55296, 55357, 56319}

Trails == {56320, 56832, 57343}

\* The digit of a nybble, as an upper-case or a lower-case hexadecimal digit.
HexChar(v, upper) == IF v < 10 THEN 48 + v ELSE IF upper THEN 55 + v ELSE 87 + v

\* \uXXXX for the 16-bit unit n.
Escape(n, upper) ==
    <<chBackslash, 117, HexChar(n \div 4096, upper), HexChar((n \div 256) % 16, upper),
      HexChar((n \div 16) % 16, upper), HexChar(n % 16, upper)>>

\* What may stand before a lone trail surrogate.
Prefixes == {<<>>, <<97>>, Escape(65, TRUE), Escape(8364, TRUE)}

\* Six bytes that are not \u plus a trail surrogate.
SixBytes ==
    {<<97, 98, 99, 100, 101, 102>>, <<chBackslash, 110, 97, 98, 99, 100>>,
     <<117, 68, 69, 48, 48, 120>>, <<chBackslash, 85, 68, 69, 48, 48>>,
     Escape(65, TRUE), Escape(55357, TRUE), Escape(56319, FALSE), Escape(57344, TRUE)}

\* Bytes that are no hexadecimal digit.
BadDigits == {32, 45, 47, 58, 64, 71, 96, 103, 128, 195, 255}

\* The escape of n with its digit number pos replaced by the byte bad.
BadEscape(n, pos, bad) == [Escape(n, TRUE) EXCEPT ![2 + pos] = bad]

StringInputs ==
    {[kind |-> "pair", lead |-> l, trail |-> t,
      body |-> Escape(l, u) \o Escape(t, u)] : l \in Leads, t \in Trails, u \in BOOLEAN}
    \cup {[kind |-> "loneTrail", lead |-> 0, trail |-> t,
           body |-> p \o Escape(t, u)] : t \in Trails, p \in Prefixes, u \in BOOLEAN}
    \cup {[kind |-> "leadThen", lead |-> l, trail |-> 0,
           body |-> Escape(l, TRUE) \o six] : l \in Leads, six \in SixBytes}
    \cup {[kind |-> "badHex", lead |-> 0, trail |-> 0,
           body |-> BadEscape(n, pos, bad)] : n \in {65, 233}, pos \in 1..4, bad \in BadDigits}
    \cup {[kind |-> "badHex", lead |-> l, trail |-> 0,
           body |-> Escape(l, TRUE) \o BadEscape(56832, pos, bad)] :
                l \in {55357}, pos \in 1..4, bad \in BadDigits}

\* The unsigned int a read before the table may find: the table's own filler,
\* or any other word, a small one included.
WildWords == {INV, 0, 4, 13}

\* Length of the scratch buffer handed to ttsdkjson_decode for these inputs.
EscapeScratchLength == 24

StringMemories == [past : PastBytes, wild : WildWords, trapv : {FALSE}]

InitString ==
    /\ context = ttsdkjson_beginEncode(FALSE, OkSink)
    /\ twin = context
    /\ before = context
    /\ lastOp = NoOp
    /\ lastResult = TTSDKJSON_OK
    /\ refStack = <<RefTop>>
    /\ wellFormed = TRUE
    /\ budget = 0
    /\ \E i \in StringInputs :
          input = [kind |-> i.kind, data |-> <<chQuote>> \o i.body \o <<chQuote>>,
                   lead |-> i.lead, trail |-> i.trail]
    /\ callbacks = OkCallbacks
    /\ mem \in StringMemories
    /\ decoded = NotDecoded
    /\ step = "input"

\* ttsdkjson_decode with a scratch buffer that holds the longest input.
DecodeEscapes ==
    /\ step = "input"
    /\ decoded' = ttsdkjson_decode(input.data, EscapeScratchLength, callbacks, mem)
    /\ step' = "decoded"
    /\ UNCHANGED <<encvars, input, callbacks, mem>>

NextString == DecodeEscapes

SpecString == InitString /\ [][NextString]_vars

\* The scalar of a surrogate pair by the rules of UTF-16.
PairScalar(lead, trail) == 65536 + (lead - 55296) * 1024 + (trail - 56320)

\* The scalar a byte sequence stands for by the rules of UTF-8 (RFC 3629):
\* shortest form only, no surrogate, nothing above 0x10FFFF; -1 otherwise.
UTF8Scalar(bytes) ==
    LET n == Len(bytes)
        Cont(k) == bytes[k] \in 128..191
        value == CASE n = 1 -> bytes[1]
                   [] n = 2 -> (bytes[1] - 192) * 64 + (bytes[2] - 128)
                   [] n = 3 -> (bytes[1] - 224) * 4096 + (bytes[2] - 128) * 64 + (bytes[3] - 128)
                   [] n = 4 -> (bytes[1] - 240) * 262144 + (bytes[2] - 128) * 4096
                                + (bytes[3] - 128) * 64 + (bytes[4] - 128)
                   [] OTHER -> -1
        shaped == CASE n = 1 -> bytes[1] \in 0..127
                    [] n = 2 -> bytes[1] \in 192..223 /\ Cont(2)
                    [] n = 3 -> bytes[1] \in 224..239 /\ Cont(2) /\ Cont(3)
                    [] n = 4 -> bytes[1] \in 240..247 /\ Cont(2) /\ Cont(3) /\ Cont(4)
                    [] OTHER -> FALSE
        least == CASE n = 1 -> 0 [] n = 2 -> 128 [] n = 3 -> 2048 [] OTHER -> 65536
    IN  IF shaped /\ value >= least /\ value <= 1114111 /\ value \notin 55296..57343
        THEN value ELSE -1

StringDelivered ==
    \E k \in 1..Len(decoded.events) : decoded.events[k].cb = "onStringElement"

\* C18: an escape pair \uLLLL\uTTTT of a lead and a trail surrogate is
\* delivered as one string element of four bytes, the UTF-8 encoding of the
\* scalar 0x10000 + ((L - 0xD800) << 10) + (T - 0xDC00).
C18_SurrogatePairDecodes ==
    (step = "decoded" /\ input.kind = "pair") =>
        /\ decoded.r = TTSDKJSON_OK
        /\ Len(decoded.events) = 2
        /\ decoded.events[1].cb = "onStringElement"
        /\ Len(decoded.events[1].value) = 4
        /\ UTF8Scalar(decoded.events[1].value) = PairScalar(input.lead, input.trail)

\* C19: a lone trail surrogate, a lead surrogate followed by six bytes that
\* are not \u plus a trail surrogate, and an escape with a digit that is no
\* hexadecimal digit all end the decode with InvalidCharacter, and no
\* string callback is made.
C19_BadEscapeRejected ==
    (step = "decoded" /\ input.kind \in {"loneTrail", "leadThen", "badHex"}) =>
        /\ decoded.r = TTSDKJSON_ERROR_INVALID_CHARACTER
        /\ ~StringDelivered

(***************************************************************************)
(* writeUTF8 on its own: one scalar written at a destination pointer that  *)
(* stands at the start of a buffer or after bytes already written.         *)
(***************************************************************************)
\* Number of scalars sampled at a constant stride across and above the range
\* of Unicode.
MaxScalarStep == 280

ScalarStride == 4099

\* Every scalar of one and two bytes, the scalars around each limit of
\* writeUTF8 and around the surrogates, a sample of the rest, and the
\* largest values an int of the model holds.
Scalars ==
    (0..2100)
    \cup {55295, 55296, 57343, 57344, 65533, 65534, 65535, 65536, 65537, 128512,
          1114110, 1114111, 1114112, 1114113, 2097151, 2097152, 67108864, 2147483647}
    \cup {k * ScalarStride : k \in 0..MaxScalarStep}

\* What the buffer holds before the destination pointer.
PriorBytes == {<<>>, <<97>>, <<226, 130, 172>>}

InitUTF8 ==
    /\ context = ttsdkjson_beginEncode(FALSE, OkSink)
    /\ twin = context
    /\ before = context
    /\ lastOp = NoOp
    /\ lastResult = TTSDKJSON_OK
    /\ refStack = <<RefTop>>
    /\ wellFormed = TRUE
    /\ budget = 0
    /\ \E character \in Scalars, prior \in PriorBytes :
          input = [kind |-> "scalar", data |-> <<>>, character |-> character, prior |-> prior]
    /\ callbacks = OkCallbacks
    /\ mem = PlainMemory(0)
    /\ decoded = NotDecoded
    /\ step = "input"

\* writeUTF8(character, &dst)
Transcode ==
    /\ step = "input"
    /\ decoded' = writeUTF8(input.character, DstAfter(input.prior))
    /\ step' = "decoded"
    /\ UNCHANGED <<encvars, input, callbacks, mem>>

NextUTF8 == Transcode

SpecUTF8 == InitUTF8 /\ [][NextUTF8]_vars

\* The number of bytes of the UTF-8 encoding of a scalar up to 0x10FFFF.
UTF8Length(character) ==
    IF character <= 127 THEN 1
    ELSE IF character <= 2047 THEN 2
    ELSE IF character <= 65535 THEN 3
    ELSE 4

\* C20: for a scalar of 0..0x10FFFF that is no surrogate writeUTF8 returns
\* OK, advances the destination pointer by 1, 2, 3 or 4 bytes according to
\* the scalar, and the bytes it passed over, the only ones it wrote, decode
\* by the rules of UTF-8 to the scalar; for a scalar above 0x10FFFF it
\* returns InvalidCharacter, writes nothing and leaves the pointer alone.
C20_WriteUTF8 ==
    (step = "decoded" /\ input.kind = "scalar") =>
        LET start == Len(input.prior) + 1
            n == decoded.dst.ptr - start
        IN  IF input.character > 1114111
            THEN /\ decoded.r = TTSDKJSON_ERROR_INVALID_CHARACTER
                 /\ decoded.dst = DstAfter(input.prior)
            ELSE input.character \notin 55296..57343 =>
                 /\ decoded.r = TTSDKJSON_OK
                 /\ n = UTF8Length(input.character)
                 /\ Len(decoded.dst.buf) = Len(input.prior) + n
                 /\ SubSeq(decoded.dst.buf, 1, Len(input.prior)) = input.prior
                 /\ UTF8Scalar(SubSeq(decoded.dst.buf, start, start + n - 1)) = input.character

\* C20 (witness): U+1F600 has been written after three earlier bytes as
\* F0 9F 98 80, and the pointer stands four bytes further.
C20_Witness ==
    /\ step = "decoded"
    /\ input.kind = "scalar"
    /\ input.character = 128512
    /\ input.prior = <<226, 130, 172>>
    /\ decoded.r = TTSDKJSON_OK
    /\ decoded.dst = [buf |-> <<226, 130, 172, 240, 159, 152, 128>>, ptr |-> 8]

(***************************************************************************)
(* Sessions with non-finite doubles and raw data: containers, null         *)
(* elements, ttsdkjson_addFloatingPointElement and                         *)
(* ttsdkjson_addRawJSONData, through a sink that accepts or rejects one    *)
(* call.                                                                   *)
(***************************************************************************)
NonFinite == {NaN, PlusInfinity, MinusInfinity}

\* Byte ranges handed to ttsdkjson_addRawJSONData: "1," and an empty range.
RawData == {<<49, chComma>>, <<>>}

ElementSinks ==
    {OkSink} \cup [failAt : {1, 3}, status : {TTSDKJSON_ERROR_CANNOT_ADD_DATA}, sticky : {FALSE}]

AddFloatingPointElement ==
    /\ ~InString
    /\ \E name \in Names, value \in NonFinite :
          Do([kind |-> "addFloatingPointElement", name |-> name, value |-> value])

AddRawJSONData ==
    /\ ~InString
    /\ \E data \in RawData : Do([kind |-> "addRawJSONData", name |-> NULL, value |-> data])

InitElements == InitWith(ElementSinks, MaxOpsSink)

NextElements ==
    \/ BeginArray
    \/ BeginObject
    \/ AddNullElement
    \/ AddFloatingPointElement
    \/ AddRawJSONData

SpecElements == InitElements /\ [][NextElements]_vars

\* The byte ranges the sink was handed between the contexts c0 and c1.
Emitted(c0, c1) ==
    [k \in 1..(Len(c1.log) - Len(c0.log)) |-> c1.log[Len(c0.log) + k].data]

\* The sink accepted every call of the last operation.
SinkAccepted == \A i \in OpCalls : context.log[i].status = TTSDKJSON_OK

\* The literal the claim gives for a non-finite double.
NonFiniteLiteral(value) ==
    CASE value = NaN -> strNull
      [] value = PlusInfinity -> <<49, 101, 57, 57, 57>>
      [] value = MinusInfinity -> <<45, 49, 101, 57, 57, 57>>

\* C21: ttsdkjson_addFloatingPointElement with NaN, +Infinity or -Infinity,
\* given a name where the container asks for one and a sink that accepts,
\* returns OK and hands the sink what ttsdkjson_addNullElement would (the
\* comma, the indentation, the name) with null, 1e999 or -1e999 as the value.
C21_NonFiniteLiterals ==
    (/\ lastOp.kind = "addFloatingPointElement"
     /\ SinkAccepted
     /\ ~(before.isObject[before.containerLevel] /\ lastOp.name = NULL)) =>
        LET plain == Emitted(before, ttsdkjson_addNullElement(before, lastOp.name).c)
            mine == Emitted(before, context)
        IN  /\ lastResult = TTSDKJSON_OK
            /\ Len(mine) = Len(plain)
            /\ SubSeq(mine, 1, Len(mine) - 1) = SubSeq(plain, 1, Len(plain) - 1)
            /\ mine[Len(mine)] = NonFiniteLiteral(lastOp.value)

\* C21 (witness): -Infinity was added under the name "a" as the second
\* member of a pretty-printed object: comma, newline, indentation, "a": and
\* -1e999.
C21_Witness ==
    /\ lastOp.kind = "addFloatingPointElement"
    /\ lastOp.value = MinusInfinity
    /\ lastResult = TTSDKJSON_OK
    /\ context.prettyPrint
    /\ before.isObject[before.containerLevel]
    /\ ~before.containerFirstEntry
    /\ Concat(SubSeq(context.log, Len(before.log) + 1, Len(context.log)))
            = <<44, 10, 32, 32, 32, 32, 34, 97, 34, 58, 32, 45, 49, 101, 57, 57, 57>>

\* C30: ttsdkjson_addRawJSONData hands the sink the given bytes in one call
\* and returns its status; containerLevel, containerFirstEntry and the
\* isObject record stay as they were, and with an accepting sink an element
\* added next is emitted as it would have been without the raw data.
C30_RawDataVerbatim ==
    lastOp.kind = "addRawJSONData" =>
        /\ Emitted(before, context) = <<lastOp.value>>
        /\ lastResult = context.log[Len(context.log)].status
        /\ context.containerLevel = before.containerLevel
        /\ context.containerFirstEntry = before.containerFirstEntry
        /\ context.isObject = before.isObject
        /\ context.sink = OkSink =>
              \A name \in Names :
                 Emitted(context, ttsdkjson_addNullElement(context, name).c)
                    = Emitted(before, ttsdkjson_addNullElement(before, name).c)

\* C30 (witness): "1," was written raw after an element of an array, and
\* the sink took it.
C30_Witness ==
    /\ lastOp.kind = "addRawJSONData"
    /\ lastOp.value = <<49, chComma>>
    /\ lastResult = TTSDKJSON_OK
    /\ before.containerLevel = 1
    /\ ~before.isObject[1]
    /\ ~before.containerFirstEntry
    /\ context.log[Len(context.log)].data = <<49, chComma>>

(***************************************************************************)
(* Splicing.  The encoder stands where a caller left it, and one call of   *)
(* ttsdkjson_addJSONElement or ttsdkjson_addJSONFromFile splices a         *)
(* document under a name.                                                  *)
(***************************************************************************)
\* Documents of RFC 8259 without floating-point numbers:
\*   {"k":42}
\*   [1]
\*   [[1],[2]]
\*   {"a":{"b":[]},"c":null}
\*   12
\*   "ab"
\*   true
\*   [1,2,125,7]
\*   {"a":"x\ny"}
\*   [1,2,3,4,5,6,7]
WellFormedDocuments ==
    {<<123, 34, 107, 34, 58, 52, 50, 125>>,
     <<91, 49, 93>>,
     <<91, 91, 49, 93, 44, 91, 50, 93, 93>>,
     <<123, 34, 97, 34, 58, 123, 34, 98, 34, 58, 91, 93, 125, 44, 34, 99, 34, 58, 110, 117, 108, 108, 125>>,
     <<49, 50>>,
     <<34, 97, 98, 34>>,
     <<116, 114, 117, 101>>,
     <<91, 49, 44, 50, 44, 49, 50, 53, 44, 55, 93>>,
     <<123, 34, 97, 34, 58, 34, 120, 92, 110, 121, 34, 125>>,
     <<91, 49, 44, 50, 44, 51, 44, 52, 44, 53, 44, 54, 44, 55, 93>>}

\* Truncated and malformed documents, the empty one included.
BrokenDocuments ==
    {<<91, 91, 49>>,
     <<123, 34, 97, 34, 58, 91>>,
     <<91, 49, 44>>,
     <<91, 125>>,
     <<123, 34, 97, 34, 58, 123, 34, 98, 34, 58, 91, 49>>,
     <<91, 49, 44, 50, 44, 51, 44, 52, 44, 53, 44, 54, 44>>,
     <<>>}

\* Where the caller stands: the operations issued before the splice.
SplicePositions ==
    LET op(kind, name) == [kind |-> kind, name |-> name, value |-> NULL]
    IN  {<<>>,
         <<op("beginArray", NULL)>>,
         <<op("beginObject", NULL)>>,
         <<op("beginObject", NULL), op("addNullElement", <<97>>)>>,
         <<op("beginObject", NULL), op("beginObject", <<97>>)>>,
         <<op("beginArray", NULL), op("beginArray", NULL), op("addNullElement", NULL)>>}

SpliceSinks ==
    {OkSink} \cup [failAt : {3, 5}, status : {TTSDKJSON_ERROR_CANNOT_ADD_DATA}, sticky : {TRUE}]

RECURSIVE ApplyAll(_, _)
\* The context after the operations of a position.
ApplyAll(c, ops) == IF ops = <<>> THEN c ELSE ApplyAll(Apply(c, Head(ops)).c, Tail(ops))

\* What a splice reports, before it was called.
NotSpliced == [r |-> TTSDKJSON_OK, events |-> <<>>, lowest |-> 0, refills |-> <<>>]

InitSplice ==
    /\ \E prettyPrint \in BOOLEAN, sink \in SpliceSinks, position \in SplicePositions :
          /\ context = ApplyAll(ttsdkjson_beginEncode(prettyPrint, sink), position)
          /\ twin = ApplyAll(ttsdkjson_beginEncode(~prettyPrint, sink), position)
    /\ before = context
    /\ lastOp = NoOp
    /\ lastResult = TTSDKJSON_OK
    /\ refStack = <<RefTop>>
    /\ wellFormed = TRUE
    /\ budget = 0
    /\ \E doc \in WellFormedDocuments \cup BrokenDocuments, name \in Names,
          closeLastContainer \in BOOLEAN, source \in {"memory", "file", "nofile"} :
          input = [kind |-> "splice", data |-> doc, name |-> name,
                   closeLastContainer |-> closeLastContainer, source |-> source]
    /\ callbacks = OkCallbacks
    /\ mem \in {PlainMemory(past) : past \in PastBytes}
    /\ decoded = NotSpliced
    /\ step = "input"

\* The caller's record of a splice x = [c, r, run].
Spliced(x, kind) ==
    /\ context' = x.c
    /\ lastResult' = x.r
    /\ decoded' = [r |-> x.r, events |-> x.run.events, lowest |-> x.run.userData.lowest,
                   refills |-> x.run.userData.refills]
    /\ before' = context
    /\ lastOp' = [kind |-> kind, name |-> input.name, value |-> input.data]
    /\ step' = "spliced"
    /\ UNCHANGED <<twin, refStack, wellFormed, budget, input, callbacks, mem>>

AddJSONElement ==
    /\ step = "input"
    /\ input.kind = "splice"
    /\ input.source = "memory"
    /\ \E x \in {ttsdkjson_addJSONElement(context, input.name, input.data,
                                          input.closeLastContainer, mem)} :
          Spliced(x, "addJSONElement")

AddJSONFromFile ==
    /\ step = "input"
    /\ input.kind = "splice"
    /\ input.source # "memory"
    /\ \E x \in {ttsdkjson_addJSONFromFile(context, input.name, input.data,
                                           input.source = "file",
                                           input.closeLastContainer, mem)} :
          Spliced(x, "addJSONFromFile")

NextSplice ==
    \/ AddJSONElement
    \/ AddJSONFromFile

SpecSplice == InitSplice /\ [][NextSplice]_vars

\* A splice has returned.
SpliceReturned == step = "spliced" /\ lastOp.kind \in {"addJSONElement", "addJSONFromFile"}

\* The documents above that are objects.
ObjectDocuments == {doc \in WellFormedDocuments : doc[1] = chLBrace}

\* The quoted name and the colon, as compact output has them.
CompactName(name) == <<chQuote>> \o name \o <<chQuote, chColon>>

C23_LevelRestored ==
    (SpliceReturned /\ input.closeLastContainer /\ ~context.ub) =>
        context.containerLevel = before.containerLevel

\* C23 (witness): the array "[[1", truncated inside two containers, was
\* spliced into an array at level 1; the splice returned Incomplete after
\* closing both containers it had opened.
C23_Witness ==
    /\ SpliceReturned
    /\ input.closeLastContainer
    /\ input.data = <<91, 91, 49>>
    /\ lastResult = TTSDKJSON_ERROR_INCOMPLETE
    /\ before.containerLevel = 1
    /\ context.containerLevel = 1
    /\ Cardinality({i \in OpCalls : IsCloseDelimiter(context.log[i])}) = 2

\* C24: during a splice and when it returns, whatever closeLastContainer
\* and the document, containerLevel is never below its value on entry
\* (sessions that nest beyond the isObject record are not covered).
C24_CallerContainersKept ==
    (SpliceReturned /\ ~context.ub) =>
        /\ decoded.lowest >= before.containerLevel
        /\ context.containerLevel >= before.containerLevel

\* C24 (witness): "[1]" was spliced at level 2 with closeLastContainer
\* false; its closing bracket closed the spliced array at level 3 and the
\* encoder is back at level 2, never lower.
C24_Witness ==
    /\ SpliceReturned
    /\ ~input.closeLastContainer
    /\ input.data = <<91, 49, 93>>
    /\ lastResult = TTSDKJSON_OK
    /\ before.containerLevel = 2
    /\ context.containerLevel = 2
    /\ decoded.lowest = 2
    /\ \E i \in OpCalls : IsCloseDelimiter(context.log[i])

\* The callbacks a document gives rise to, ttsdkjson_decode reading it with
\* a blank after it.
EventsOf(bytes) ==
    ttsdkjson_decode(bytes \o <<chSpace>>, ScratchLength, OkCallbacks, PlainMemory(0)).events

\* The output of the session once the caller has ended the encoding.
Finished(c) == Concat(ttsdkjson_endEncode(c).c.log)

\* The callbacks of the finished output when document doc stands under
\* `name` where the context c0 is: those before the position, those of the
\* document with the name on its root, the ends of the containers open at
\* c0, and onEndData.
EventsWith(c0, name, doc) ==
    LET around == EventsOf(Finished(c0))
        level == c0.containerLevel
        head == IF level = 0 THEN <<>> ELSE SubSeq(around, 1, Len(around) - level - 1)
        tail == IF level = 0 THEN <<[cb |-> "onEndData", name |-> NULL, value |-> NULL]>>
                ELSE SubSeq(around, Len(around) - level, Len(around))
        own == EventsOf(doc)
        root == [own[1] EXCEPT !.name = IF c0.isObject[level] THEN name ELSE NULL]
    IN  head \o <<root>> \o SubSeq(own, 2, Len(own) - 1) \o tail

\* C25: splicing a well-formed document with closeLastContainer true through
\* an accepting sink, under a name where the encoder is inside an object,
\* returns OK, and the finished output decodes to the callbacks of the
\* document, its root named by the splice, in the place where the encoder
\* stood.
C25_SpliceDecodesAlike ==
    (/\ SpliceReturned
     /\ input.source # "nofile"
     /\ input.data \in WellFormedDocuments
     /\ input.closeLastContainer
     /\ context.sink = OkSink
     /\ ~(before.isObject[before.containerLevel] /\ input.name = NULL)
     /\ ~context.ub) =>
        /\ lastResult = TTSDKJSON_OK
        /\ EventsOf(Finished(context)) = EventsWith(before, input.name, input.data)

\* One move of the window, as updateDecoder_readFile recorded it, read
\* against the file: it was made with end of file not flagged and less than
\* half the window unconsumed; it asked for the bytes the window lacked;
\* bufferPtr is the start of the window; the window begins with the
\* unconsumed tail followed by the bytes read, which together are the bytes
\* of the file from the first unconsumed one to the file position, each
\* once and in the order of the file; end of file is flagged exactly when
\* fewer bytes came than were asked for.
RefillInOrder(e, file) ==
    LET bufferLength == e.bufferEnd - 1
        got == IF e.bytesRead < 0 THEN 0 ELSE e.bytesRead
        held == Len(e.tail) + got
        first == e.offset - Len(e.tail)
    IN  /\ ~e.wasEOF
        /\ 2 * Len(e.tail) < bufferLength
        /\ e.requested = bufferLength - Len(e.tail)
        /\ e.bufferPtr = 1
        /\ SubSeq(e.window, 1, Len(e.tail)) = e.tail
        /\ first >= 0
        /\ held <= bufferLength
        /\ \A k \in 1..held : /\ e.origin[k] = first + k
                              /\ e.window[k] = file[first + k]
        /\ e.isEOF <=> (e.bytesRead < e.requested)

\* C27: every refill of a splice from a file is made only with end of file
\* not flagged and less than half the window left, puts the unconsumed tail
\* at the start of the window with bufferPtr on it and the next bytes of the
\* file after it, and flags end of file exactly on a short read; the tail
\* and the bytes read are the bytes of the file from the first unconsumed
\* one on, none lost, repeated or out of order.
C27_RefillKeepsOrder ==
    (SpliceReturned /\ lastOp.kind = "addJSONFromFile") =>
        \A i \in 1..Len(decoded.refills) : RefillInOrder(decoded.refills[i], input.data)

\* C27 (witness): "[1,2,3,4,5,6,7]" was spliced from a file through the
\* window in three refills; the third moved the tail ",7" to the start,
\* read the one byte left and flagged end of file.
C27_Witness ==
    /\ SpliceReturned
    /\ lastOp.kind = "addJSONFromFile"
    /\ input.data = <<91, 49, 44, 50, 44, 51, 44, 52, 44, 53, 44, 54, 44, 55, 93>>
    /\ lastResult = TTSDKJSON_OK
    /\ Len(decoded.refills) = 3
    /\ ~decoded.refills[2].isEOF
    /\ decoded.refills[3].tail = <<44, 55>>
    /\ decoded.refills[3].bytesRead = 1
    /\ decoded.refills[3].isEOF

(***************************************************************************)
(* The digit scan.  The input is an optional '-', a string of decimal      *)
(* digits whose value may be beyond the unsigned accumulator, and one      *)
(* byte after it.                                                          *)
(***************************************************************************)
\* The numerals 0..MaxNumeral are all scanned.
MaxNumeral == 1100

\* Numerals with a leading zero, and numerals of more digits.
LongNumerals ==
    {<<48>> \o DecimalDigits(v) : v \in {0, 7, ULLONG_MAX, ULLONG_MAX + 1}}
        \cup {DecimalDigits(v) : v \in {ULLONG_MAX * 10, ULLONG_MAX * 10 + 9,
                                         ULLONG_MAX * 100 + 55, 99999, 100000}}

Numerals == {DecimalDigits(v) : v \in 0..MaxNumeral} \cup LongNumerals

\* Bytes after the digits: space, '.', ']'.
DigitFollowers == {32, 46, 93}

RECURSIVE DigitsValue(_)
\* The number a string of decimal digits denotes.
DigitsValue(digits) ==
    IF digits = <<>> THEN 0
    ELSE 10 * DigitsValue(SubSeq(digits, 1, Len(digits) - 1)) + (digits[Len(digits)] - 48)

InitDigits ==
    /\ context = ttsdkjson_beginEncode(FALSE, OkSink)
    /\ twin = context
    /\ before = context
    /\ lastOp = NoOp
    /\ lastResult = TTSDKJSON_OK
    /\ refStack = <<RefTop>>
    /\ wellFormed = TRUE
    /\ budget = 0
    /\ \E negative \in BOOLEAN, digits \in Numerals, follower \in DigitFollowers :
          input = [kind |-> "digits",
                   data |-> (IF negative THEN <<chMinus>> ELSE <<>>) \o digits \o <<follower>>,
                   negative |-> negative, digits |-> digits, follower |-> follower]
    /\ callbacks = OkCallbacks
    /\ mem \in {PlainMemory(0), [PlainMemory(0) EXCEPT !.trapv = TRUE]}
    /\ decoded = NotDecoded
    /\ step = "input"

\* The caller hands the numeral to ttsdkjson_decode.  Besides what the call
\* returns and reports, `scan` is the digit loop as it ran on the input.
DecodeDigits ==
    /\ step = "input"
    /\ input.kind = "digits"
    /\ \E x \in {ttsdkjson_decode(input.data, ScratchLength, callbacks, mem)},
          loop \in {DigitLoop([buf |-> input.data,
                               bufferPtr |-> IF input.negative THEN 2 ELSE 1,
                               bufferEnd |-> Len(input.data) + 1,
                               mem |-> mem], 0)} :
          decoded' = [r |-> x.r, events |-> x.events, errorOffset |-> x.errorOffset,
                      stopped |-> x.stopped,
                      scan |-> [accum |-> loop.accum, isOverflow |-> loop.isOverflow,
                                wrapped |-> loop.wrapped]]
    /\ step' = "decoded"
    /\ UNCHANGED <<encvars, input, callbacks, mem>>

NextDigits == DecodeDigits

SpecDigits == InitDigits /\ [][NextDigits]_vars

IntegerCallbacks == {"onIntegerElement", "onUnsignedIntegerElement"}

\* C26: in the digit scan the accumulator never wraps; the overflow flag
\* is set exactly when the digit string denotes more than the largest
\* value of the accumulator, and without it the accumulator holds the
\* value; a numeral that overflows reaches no integer callback.
C26_AccumulatorNeverWraps ==
    (step = "decoded" /\ input.kind = "digits") =>
        /\ ~decoded.scan.wrapped
        /\ decoded.scan.isOverflow <=> (DigitsValue(input.digits) > ULLONG_MAX)
        /\ ~decoded.scan.isOverflow => decoded.scan.accum = DigitsValue(input.digits)
        /\ decoded.scan.isOverflow =>
              \A i \in 1..Len(decoded.events) : decoded.events[i].cb \notin IntegerCallbacks

\* C26 (witness): the numeral one above the largest value of the
\* accumulator was scanned; the flag is set and the numeral went to the
\* floating-point callback.
C26_Witness ==
    /\ step = "decoded"
    /\ input.kind = "digits"
    /\ ~input.negative
    /\ DigitsValue(input.digits) = ULLONG_MAX + 1
    /\ input.follower = 32
    /\ decoded.scan.isOverflow
    /\ decoded.r = TTSDKJSON_OK
    /\ decoded.events[1].cb = "onFloatingPointElement"

\* C26 (witness of the other side): the largest value itself was scanned
\* without the flag and reported as an unsigned integer.
C26_LargestValue ==
    /\ step = "decoded"
    /\ input.kind = "digits"
    /\ ~input.negative
    /\ DigitsValue(input.digits) = ULLONG_MAX
    /\ input.follower = 32
    /\ ~decoded.scan.isOverflow
    /\ decoded.events[1] = [cb |-> "onUnsignedIntegerElement", name |-> NULL,
                            value |-> <<ULLONG_MAX>>]

(***************************************************************************)
(* Escaping.  One string, of any bytes of a small alphabet and of a        *)
(* length that takes up to three portions of the work buffer, is encoded   *)
(* as the value of an element, as the name of a member, or as a piece of   *)
(* a streamed string.                                                      *)
(***************************************************************************)
MaxStringLength == 4

\* 'a', '"', newline, and the control bytes 0x01 and 0x1f.
EscapeAlphabet == {97, 34, 10, 1, 31}

EscapeStrings == UNION {[1..n -> EscapeAlphabet] : n \in 0..MaxStringLength}

\* Where the string is encoded: the operations before it, and the call.
EscapePositions ==
    LET op(kind) == [kind |-> kind, name |-> NULL, value |-> NULL]
    IN  {[before |-> <<>>, call |-> "addStringElement"],
         [before |-> <<op("beginArray"), op("addNullElement")>>, call |-> "addStringElement"],
         [before |-> <<op("beginObject")>>, call |-> "addNullElement"],
         [before |-> <<op("beginArray"), op("beginStringElement")>>,
          call |-> "appendStringElement"]}

EscapeSinks ==
    {OkSink} \cup [failAt : {3, 4, 6}, status : {TTSDKJSON_ERROR_CANNOT_ADD_DATA}, sticky : {FALSE}]

InitEscape ==
    /\ \E prettyPrint \in BOOLEAN, sink \in EscapeSinks, position \in EscapePositions,
          string \in EscapeStrings :
          /\ context = ApplyAll(ttsdkjson_beginEncode(prettyPrint, sink), position.before)
          /\ input = [kind |-> "string", data |-> string, call |-> position.call]
    /\ twin = context
    /\ before = context
    /\ lastOp = NoOp
    /\ lastResult = TTSDKJSON_OK
    /\ refStack = <<RefTop>>
    /\ wellFormed = TRUE
    /\ budget = 1
    /\ callbacks = OkCallbacks
    /\ mem = PlainMemory(0)
    /\ decoded = NotDecoded
    /\ step = "input"

\* The caller's record of an operation on the string it holds.
Escaped(op) ==
    /\ step = "input"
    /\ input.kind = "string"
    /\ input.call = op.kind
    /\ \E x \in {Apply(context, op)} :
          /\ context' = x.c
          /\ lastResult' = x.r
    /\ before' = context
    /\ lastOp' = op
    /\ step' = "escaped"
    /\ UNCHANGED <<twin, refStack, wellFormed, budget, input, callbacks, mem, decoded>>

\* ttsdkjson_addStringElement with the string as the value.
AddStringValue == Escaped([kind |-> "addStringElement", name |-> NULL, value |-> input.data])

\* ttsdkjson_addNullElement with the string as the name of the member.
AddNamedMember == Escaped([kind |-> "addNullElement", name |-> input.data, value |-> NULL])

\* ttsdkjson_appendStringElement with the string as the piece.
AppendPiece == Escaped([kind |-> "appendStringElement", name |-> NULL, value |-> input.data])

NextEscape ==
    \/ AddStringValue
    \/ AddNamedMember
    \/ AppendPiece

SpecEscape == InitEscape /\ [][NextEscape]_vars

\* Control bytes that have no escape.
IsBadControl(b) == b < 32 /\ b \notin {8, 9, 10, 12, 13}

HasBadControl(string) == \E k \in 1..Len(string) : IsBadControl(string[k])

\* The sink calls of the last operation that came from appendEscapedString,
\* in call order.
PortionCalls == SelectSeq(SubSeq(context.log, Len(before.log) + 1, Len(context.log)),
                          LAMBDA e : e.site = 170)

\* C28: whatever the string, no portion handed to the sink is longer than
\* the work buffer; and when the string has no control byte without an
\* escape and the sink accepts every call, the operation returns OK and the
\* portions, put together in call order, are the escape of the whole string.
C28_ChunkingTransparent ==
    (step = "escaped") =>
        /\ \A i \in 1..Len(PortionCalls) : Len(PortionCalls[i].data) <= WorkBufferSize
        /\ (~HasBadControl(input.data) /\ SinkAccepted) =>
              /\ lastResult = TTSDKJSON_OK
              /\ Concat(PortionCalls) = RefEscape(input.data)

\* C28 (witness): a string of four bytes with three of them escaped went to
\* the sink in more than one portion, one of them as long as it may be for
\* a portion of two bytes.
C28_Witness ==
    /\ step = "escaped"
    /\ lastOp.kind = "addStringElement"
    /\ input.data = <<34, 97, 10, 34>>
    /\ SinkAccepted
    /\ Len(PortionCalls) >= 2
    /\ \E i \in 1..Len(PortionCalls) : Len(PortionCalls[i].data) = 4
    /\ Concat(PortionCalls) = <<92, 34, 97, 92, 110, 92, 34>>

\* The bytes the last operation handed to the sink.
OpBytes == Concat(SubSeq(context.log, Len(before.log) + 1, Len(context.log)))

\* C29: encoding a string, as a value, a member name or a piece of a
\* streamed string, that holds a control byte without an escape returns
\* InvalidCharacter when the sink accepts every call; and whatever the sink
\* does, no such byte and no \u escape is handed to it.
C29_ControlByteRejected ==
    (step = "escaped" /\ HasBadControl(input.data)) =>
        /\ SinkAccepted => lastResult = TTSDKJSON_ERROR_INVALID_CHARACTER
        /\ \A k \in 1..Len(OpBytes) :
              /\ ~IsBadControl(OpBytes[k])
              /\ ~(k > 1 /\ OpBytes[k - 1] = chBackslash /\ OpBytes[k] = 117)

\* C29 (witness): "aa" followed by the byte 0x01 was encoded as a value:
\* the first portion reached the sink between the two quotes, the second
\* did not, and the call returned InvalidCharacter.
C29_Witness ==
    /\ step = "escaped"
    /\ lastOp.kind = "addStringElement"
    /\ input.data = <<97, 97, 1>>
    /\ context.sink = OkSink
    /\ lastResult = TTSDKJSON_ERROR_INVALID_CHARACTER
    /\ OpBytes = <<chQuote, 97, 97, chQuote>>

(***************************************************************************)
(* Operations refused by their element-begin step.                         *)
(***************************************************************************)
\* C31: an element add or container open that returns InvalidData for a
\* null name inside an object has made no call to the sink and has left
\* containerLevel and containerFirstEntry as they were.
C31_RefusedLeavesNoTrace ==
    (NullNameInObject /\ lastResult = TTSDKJSON_ERROR_INVALID_DATA) =>
        /\ OpCalls = {}
        /\ context.containerLevel = before.containerLevel
        /\ context.containerFirstEntry = before.containerFirstEntry

(***************************************************************************)
(* The window of a splice from a file.                                     *)
(***************************************************************************)
\* The documents above that end before they are complete.
TruncatedDocuments == {doc \in BrokenDocuments : doc # <<chLBracket, chRBrace>>}

\* The window after a move does not reach beyond the bytes it holds of the
\* file.
WindowEndsWithFile(e) ==
    e.bufferEnd - 1 <= Len(e.tail) + (IF e.bytesRead < 0 THEN 0 ELSE e.bytesRead)

\* C32: in a splice from a file, after a short read the window of the
\* decoder ends with the last byte read, so that neither bytes of an earlier
\* window nor the zeros of the buffer are parsed; and a file that holds a
\* truncated document yields Incomplete when the sink accepts every call.
C32_OnlyFileBytesParsed ==
    (SpliceReturned /\ lastOp.kind = "addJSONFromFile" /\ input.source = "file") =>
        /\ \A i \in 1..Len(decoded.refills) :
              decoded.refills[i].isEOF => WindowEndsWithFile(decoded.refills[i])
        /\ (input.data \in TruncatedDocuments /\ context.sink = OkSink /\ ~context.ub) =>
              lastResult = TTSDKJSON_ERROR_INCOMPLETE

(***************************************************************************)
(* Reads of the decoder.                                                   *)
(***************************************************************************)
\* C33: the decoder stops with bufferPtr not beyond bufferEnd, and it reads
\* input bytes below bufferEnd only: what a decode returns and reports is
\* the same whatever byte follows the input in memory.
C33_ReadsStayInWindow ==
    (step = "decoded" /\ input.kind = "document") =>
        /\ decoded.stopped <= Len(input.data)
        /\ \A past \in PastBytes :
              ttsdkjson_decode(input.data, ScratchLength, callbacks, PlainMemory(past)) = decoded

(***************************************************************************)
(* Splices that leave the root open.                                       *)
(***************************************************************************)
\* The documents above that are arrays or objects.
ContainerDocuments == {doc \in WellFormedDocuments : doc[1] \in {chLBracket, chLBrace}}

\* What a compact encoder emits for document doc spliced at c0 under `name`
\* with its root left open: the separator, the name inside an object, and
\* the document without its last delimiter.
OpenSplice(c0, name, doc) ==
    (IF c0.containerFirstEntry THEN <<>> ELSE <<chComma>>)
        \o (IF c0.isObject[c0.containerLevel] THEN CompactName(name) ELSE <<>>)
        \o SubSeq(doc, 1, Len(doc) - 1)

\* C34: a splice of an array or object with closeLastContainer false, at
\* any level, through an accepting sink, returns OK with exactly the root of
\* the document left open: containerLevel is one above its value on entry,
\* and in compact output every container inside the root was closed where
\* the document closes it.
C34_OnlyRootLeftOpen ==
    (/\ SpliceReturned
     /\ lastOp.kind = "addJSONElement"
     /\ input.data \in ContainerDocuments
     /\ ~input.closeLastContainer
     /\ ~(before.isObject[before.containerLevel] /\ input.name = NULL)
     /\ context.sink = OkSink
     /\ ~context.ub) =>
        /\ lastResult = TTSDKJSON_OK
        /\ context.containerLevel = before.containerLevel + 1
        /\ ~context.prettyPrint => OpBytes = OpenSplice(before, input.name, input.data)

BeginCallbacks == {"onBeginArray", "onBeginObject"}

RECURSIVE NestedCallbacks(_, _, _, _)
\* The callbacks from number i on are well nested, `open` containers being
\* open and `roots` elements having been reported outside any container:
\* no end without an open begin, every begin ended, one root in all, and
\* onEndData as the last callback and nowhere else.
NestedCallbacks(events, i, open, roots) ==
    IF i > Len(events) THEN FALSE
    ELSE LET cb == events[i].cb
             root == IF open = 0 THEN roots + 1 ELSE roots
         IN  IF cb = "onEndData" THEN i = Len(events) /\ open = 0 /\ roots = 1
             ELSE IF cb = "onEndContainer"
             THEN open > 0 /\ NestedCallbacks(events, i + 1, open - 1, roots)
             ELSE IF cb \in BeginCallbacks THEN NestedCallbacks(events, i + 1, open + 1, root)
             ELSE NestedCallbacks(events, i + 1, open, root)

\* C35: a ttsdkjson_decode that returns OK has made a well-nested sequence
\* of callbacks: every onEndContainer ends an open container, as many ends
\* as begins, one root element, and onEndData once, after all the others.
C35_CallbacksWellNested ==
    (step = "decoded" /\ input.kind = "document" /\ decoded.r = TTSDKJSON_OK) =>
        NestedCallbacks(decoded.events, 1, 0, 0)

\* C35 (witness): {"k":{"n":-3,"m":[]}} was decoded with OK: three
\* containers, each ended inside the one that holds it, in eight callbacks.
C35_Witness ==
    /\ step = "decoded"
    /\ input.kind = "document"
    /\ input.data = <<123, 34, 107, 34, 58, 123, 34, 110, 34, 58, 45, 51, 44, 34, 109, 34,
                      58, 91, 93, 125, 125>>
    /\ decoded.r = TTSDKJSON_OK
    /\ Len(decoded.events) = 8
    /\ decoded.events[4].cb = "onBeginArray"
    /\ decoded.events[5].cb = "onEndContainer"
    /\ decoded.events[8].cb = "onEndData"
    /\ NestedCallbacks(decoded.events, 1, 0, 0)

(***************************************************************************)
(* decodeString on its own: one quoted string in the window and a          *)
(* destination buffer of a chosen length.                                  *)
(***************************************************************************)
\* Longest destination buffer, and most pieces in the content of a string.
MaxDstBufferLength == 14
MaxPieces == 3

\* What a string is made of: a plain byte, the escapes \n and \", é,
\* €, the pair 😀, and the escape \x that JSON does not have.
DestinationPieces ==
    {<<97>>,
     <<92, 110>>,
     <<92, 34>>,
     <<92, 117, 48, 48, 101, 57>>,
     <<92, 117, 50, 48, 97, 99>>,
     <<92, 117, 100, 56, 51, 100, 92, 117, 100, 101, 48, 48>>,
     <<92, 120>>}

RECURSIVE PieceStrings(_)
\* The strings of at most n pieces.
PieceStrings(n) ==
    IF n = 0 THEN {<<>>}
    ELSE LET shorter == PieceStrings(n - 1)
         IN  shorter \cup {s \o piece : s \in shorter, piece \in DestinationPieces}

\* The indices of dstBuffer that decodeString stores to: index 0 on entry,
\* the bytes of the content from index 0 on, and the terminating NUL after
\* them when the function returns OK.
DstWrites(x) ==
    {0} \cup {k - 1 : k \in 1..Len(x.dst)} \cup (IF x.r = TTSDKJSON_OK THEN {Len(x.dst)} ELSE {})

InitDestination ==
    /\ context = ttsdkjson_beginEncode(FALSE, OkSink)
    /\ twin = context
    /\ before = context
    /\ lastOp = NoOp
    /\ lastResult = TTSDKJSON_OK
    /\ refStack = <<RefTop>>
    /\ wellFormed = TRUE
    /\ budget = 0
    /\ \E body \in PieceStrings(MaxPieces), closed \in BOOLEAN, n \in 1..MaxDstBufferLength :
          input = [kind |-> "string", body |-> body, closed |-> closed,
                   data |-> <<chQuote>> \o body \o (IF closed THEN <<chQuote>> ELSE <<>>),
                   dstBufferLength |-> n]
    /\ callbacks = OkCallbacks
    /\ mem \in {PlainMemory(past) : past \in PastBytes}
    /\ decoded = NotDecoded
    /\ step = "input"

\* decodeString(context, dstBuffer, dstBufferLength) with the window on the
\* whole input.
DecodeInto ==
    /\ step = "input"
    /\ \E x \in {decodeString([buf |-> input.data, bufferPtr |-> 1,
                               bufferEnd |-> Len(input.data) + 1,
                               nameBufferLength |-> input.dstBufferLength,
                               stringBufferLength |-> input.dstBufferLength,
                               callbacks |-> callbacks, events |-> <<>>,
                               userData |-> NoUserData, mem |-> mem],
                              input.dstBufferLength)} :
          decoded' = [r |-> x.r, dst |-> x.dst, writes |-> DstWrites(x),
                      stopped |-> x.d.bufferPtr - 1]
    /\ step' = "copied"
    /\ UNCHANGED <<encvars, input, callbacks, mem>>

NextDestination == DecodeInto

SpecDestination == InitDestination /\ [][NextDestination]_vars

\* C36: whatever the string and whatever the length of the destination,
\* from 1 on, decodeString stores only below dstBufferLength, the
\* terminating NUL included; and a closed string with a content of
\* dstBufferLength bytes or more is refused with DataTooLong with no byte of
\* it stored.
C36_WritesStayInDestination ==
    step = "copied" =>
        /\ \A k \in decoded.writes : k < input.dstBufferLength
        /\ (input.closed /\ Len(input.body) >= input.dstBufferLength) =>
              /\ decoded.r = TTSDKJSON_ERROR_DATA_TOO_LONG
              /\ decoded.dst = <<>>
              /\ decoded.writes = {0}

\* C36 (witness): "aaa" was copied into a destination of four bytes, the
\* NUL in the last of them.
C36_Witness ==
    /\ step = "copied"
    /\ input.body = <<97, 97, 97>>
    /\ input.closed
    /\ input.dstBufferLength = 4
    /\ decoded.r = TTSDKJSON_OK
    /\ decoded.dst = <<97, 97, 97>>
    /\ decoded.writes = 0..3

(***************************************************************************)
(* The three entry points run one loop iteration at a time.  `decoded` is  *)
(* the run, [d, stack, r]: the decode context, the containers whose loop   *)
(* is running, innermost last, and the result once there is one; `step` is *)
(* where the run stands: "element" before the decodeElement of the root,   *)
(* "loop" at the head of the innermost loop, "closing" at the test of the  *)
(* closing loop of a splice, "returned" after the return, "undefined"      *)
(* once the encoder has written past its isObject array.                   *)
(***************************************************************************)
AtLoop(d, stack) == [pc |-> "loop", d |-> d, stack |-> stack, r |-> TTSDKJSON_OK]

\* decodeElement has returned r to its first caller: ttsdkjson_decode goes on
\* to onEndData and returns, a splice to its closing loop.
Finish(d, r) ==
    IF d.userData.update = "none"
    THEN Let(IF r = TTSDKJSON_OK THEN Callback(d, "onEndData", NULL, NULL) ELSE Ret(d, r),
             LAMBDA y : [pc |-> "returned", d |-> y.c, stack |-> <<>>, r |-> y.r])
    ELSE [pc |-> IF r = UNDEFINED \/ d.userData.encodeContext.ub THEN "undefined" ELSE "closing",
          d |-> d, stack |-> <<>>, r |-> r]

\* An element of the innermost container has returned x.r: a failure goes
\* up through every loop; after a success the loop skips whitespace and one
\* comma, and tests bufferPtr < bufferEnd again.
AfterElement(x, stack) ==
    IF x.r # TTSDKJSON_OK \/ stack = <<>> THEN Finish(x.c, x.r)
    ELSE Let(SkipWhitespace(x.c), LAMBDA e :
             IF e.bufferPtr >= e.bufferEnd THEN Finish(e, TTSDKJSON_ERROR_INCOMPLETE)
             ELSE IF ByteAt(e, e.bufferPtr) = chComma
             THEN AtLoop([e EXCEPT !.bufferPtr = @ + 1], stack)
             ELSE AtLoop(e, stack))

\* decodeElement(name, d0) up to the loop of a container, or to its return
\* for any other element.
EnterElement(name, d0, stack) ==
    Let(SkipWhitespace(d0), LAMBDA d :
        IF d.bufferPtr >= d.bufferEnd THEN Finish(d, TTSDKJSON_ERROR_INCOMPLETE)
        ELSE IF ByteAt(d, d.bufferPtr) \in {chLBracket, chLBrace}
        THEN Let(Callback([d EXCEPT !.bufferPtr = @ + 1],
                          IF ByteAt(d, d.bufferPtr) = chLBracket
                          THEN "onBeginArray" ELSE "onBeginObject", name, NULL),
                 LAMBDA x :
                    IF x.r # TTSDKJSON_OK THEN Finish(x.c, x.r)
                    ELSE AtLoop(x.c, Append(stack,
                                    IF ByteAt(d, d.bufferPtr) = chLBracket
                                    THEN "array" ELSE "object")))
        ELSE AfterElement(decodeElement(name, d), stack))

\* One iteration of the loop of the innermost container, from the test of
\* the while to the test before the next iteration.
Iteration(d0, stack) ==
    LET kind == stack[Len(stack)]
        outer == SubSeq(stack, 1, Len(stack) - 1)
    IN  IF d0.bufferPtr >= d0.bufferEnd THEN Finish(d0, TTSDKJSON_ERROR_INCOMPLETE)
        ELSE Let(SkipWhitespace(d0), LAMBDA d :
             IF d.bufferPtr >= d.bufferEnd THEN Finish(d, TTSDKJSON_ERROR_INCOMPLETE)
             ELSE IF ByteAt(d, d.bufferPtr) = (IF kind = "array" THEN chRBracket ELSE chRBrace)
             THEN AfterElement(Callback([d EXCEPT !.bufferPtr = @ + 1],
                                        "onEndContainer", NULL, NULL), outer)
             ELSE IF kind = "array" THEN EnterElement(NULL, d, stack)
             ELSE Let(decodeString(d, d.nameBufferLength), LAMBDA key :
                  IF key.r # TTSDKJSON_OK THEN Finish(key.d, key.r)
                  ELSE Let(SkipWhitespace(key.d), LAMBDA k :
                      IF k.bufferPtr >= k.bufferEnd THEN Finish(k, TTSDKJSON_ERROR_INCOMPLETE)
                      ELSE IF ByteAt(k, k.bufferPtr) # chColon
                      THEN Finish(k, TTSDKJSON_ERROR_INVALID_CHARACTER)
                      ELSE EnterElement(CString(key.dst),
                                        SkipWhitespace([k EXCEPT !.bufferPtr = @ + 1]),
                                        stack))))

\* Callbacks of a plain decode: all accepting, or one call refused.
RunCallbacks == {OkCallbacks} \cup [failAt : {2, 4}, status : {TTSDKJSON_ERROR_INVALID_DATA}]

RunSinks == {OkSink} \cup [failAt : {3}, status : {TTSDKJSON_ERROR_CANNOT_ADD_DATA}, sticky : {TRUE}]

NotStarted == [pc |-> "input", d |-> NoUserData, stack |-> <<>>, r |-> TTSDKJSON_OK]

InitRun ==
    /\ \E sink \in RunSinks, position \in SplicePositions :
          context = ApplyAll(ttsdkjson_beginEncode(FALSE, sink), position)
    /\ twin = context
    /\ before = context
    /\ lastOp = NoOp
    /\ lastResult = TTSDKJSON_OK
    /\ refStack = <<RefTop>>
    /\ wellFormed = TRUE
    /\ budget = 0
    /\ \E doc \in WellFormedDocuments \cup BrokenDocuments, name \in Names,
          closeLastContainer \in BOOLEAN,
          kind \in {"decode", "addJSONElement", "addJSONFromFile"}, opened \in BOOLEAN :
          /\ kind # "addJSONFromFile" => opened
          /\ kind = "decode" => (name = NULL /\ closeLastContainer /\ context.containerLevel = 0
                                  /\ context.sink = OkSink)
          /\ input = [kind |-> kind, data |-> doc, name |-> name,
                      closeLastContainer |-> closeLastContainer, opened |-> opened]
    /\ callbacks \in RunCallbacks
    /\ input.kind # "decode" => callbacks = OkCallbacks
    /\ mem \in {PlainMemory(past) : past \in PastBytes}
    /\ decoded = NotStarted
    /\ step = "input"

\* The run moves on; the caller sees the encoder context and the result
\* once the function has returned.
MoveOn(run) ==
    /\ decoded' = run
    /\ step' = run.pc
    /\ UNCHANGED <<before, twin, refStack, wellFormed, budget, input, callbacks, mem>>
    /\ IF run.pc = "returned" /\ input.kind # "decode"
       THEN /\ context' = run.d.userData.encodeContext
            /\ lastResult' = run.r
            /\ lastOp' = [kind |-> input.kind, name |-> input.name, value |-> input.data]
       ELSE UNCHANGED <<context, lastResult, lastOp>>

\* ttsdkjson_decode up to the call of decodeElement.
EnterDecode ==
    /\ step = "input"
    /\ input.kind = "decode"
    /\ MoveOn([pc |-> "element",
               d |-> [buf |-> input.data, bufferPtr |-> 1, bufferEnd |-> Len(input.data) + 1,
                      nameBufferLength |-> ScratchLength \div 4,
                      stringBufferLength |-> ScratchLength - ScratchLength \div 4,
                      callbacks |-> callbacks, events |-> <<>>,
                      userData |-> NoUserData, mem |-> mem],
               stack |-> <<>>, r |-> TTSDKJSON_OK])

\* ttsdkjson_addJSONElement up to the call of decodeElement.
EnterAddJSONElement ==
    /\ step = "input"
    /\ input.kind = "addJSONElement"
    /\ MoveOn([pc |-> "element",
               d |-> [buf |-> input.data, bufferPtr |-> 1, bufferEnd |-> Len(input.data) + 1,
                      nameBufferLength |-> SpliceNameBufferSize,
                      stringBufferLength |-> ElementStringBufferSize,
                      callbacks |-> OkCallbacks, events |-> <<>>,
                      userData |-> JSONFromFileContext(context, input.closeLastContainer,
                                                       "doNothing", <<>>, TRUE),
                      mem |-> mem],
               stack |-> <<>>, r |-> TTSDKJSON_OK])

\* ttsdkjson_addJSONFromFile up to the call of decodeElement: the first
\* load of the window included.
EnterAddJSONFromFile ==
    /\ step = "input"
    /\ input.kind = "addJSONFromFile"
    /\ \E d0 \in {updateDecoderCallback(
                    [buf |-> [k \in 1..FileBufferSize |-> 0],
                     bufferPtr |-> FileBufferSize + 1, bufferEnd |-> FileBufferSize + 1,
                     nameBufferLength |-> SpliceNameBufferSize,
                     stringBufferLength |-> FileStringBufferSize,
                     callbacks |-> OkCallbacks, events |-> <<>>,
                     userData |-> JSONFromFileContext(context, input.closeLastContainer,
                                                      "readFile", input.data, input.opened),
                     mem |-> mem])} :
          MoveOn([pc |-> "element", d |-> d0, stack |-> <<>>, r |-> TTSDKJSON_OK])

\* The decodeElement of the root.
RootElement ==
    /\ step = "element"
    /\ \E run \in {EnterElement(input.name, decoded.d, <<>>)} : MoveOn(run)

\* One iteration of the innermost container loop.
LoopIteration ==
    /\ step = "loop"
    /\ \E run \in {Iteration(decoded.d, decoded.stack)} : MoveOn(run)

\* while (closeLastContainer && encodeContext->containerLevel > containerLevel):
\* one test, and the body when it holds.
ClosingIteration ==
    /\ step = "closing"
    /\ LET enc == decoded.d.userData.encodeContext
       IN  IF input.closeLastContainer /\ enc.containerLevel > before.containerLevel
           THEN \E x \in {ttsdkjson_endContainer(enc)} :
                   MoveOn([decoded EXCEPT !.d.userData.encodeContext = x.c,
                                          !.d.userData.lowest =
                                              IF x.c.containerLevel < @
                                              THEN x.c.containerLevel ELSE @])
           ELSE MoveOn([decoded EXCEPT !.pc = "returned"])

NextRun ==
    \/ EnterDecode
    \/ EnterAddJSONElement
    \/ EnterAddJSONFromFile
    \/ RootElement
    \/ LoopIteration
    \/ ClosingIteration

\* The functions run on their own thread and block nowhere but in the
\* callbacks, the sink and read(), which return: a step that can be taken is
\* taken.
SpecRun == InitRun /\ [][NextRun]_vars /\ WF_vars(NextRun)

RunEnded == step \in {"returned", "undefined"}

\* Input not yet passed by bufferPtr: the bytes of the window from bufferPtr
\* on and, for a file, the bytes not yet read, plus one window while read()
\* has not come back short.
Unread(d) ==
    (d.bufferEnd - d.bufferPtr)
        + (IF d.userData.update = "readFile"
           THEN (Len(d.userData.file) - d.userData.offset)
                    + (IF d.userData.isEOF THEN 0 ELSE FileBufferSize)
           ELSE 0)

\* What is left to do: two for each byte of input, one for each container
\* the encoder has open, one for the return of decodeElement.
Remaining(run) ==
    2 * Unread(run.d)
        + (IF run.d.userData.update = "none" THEN 0
           ELSE run.d.userData.encodeContext.containerLevel)
        + (IF run.pc \in {"element", "loop"} THEN 1 ELSE 0)

\* What a whole call of the function returns for the same input.
WholeCall ==
    IF input.kind = "decode"
    THEN Let(ttsdkjson_decode(input.data, ScratchLength, callbacks, mem), LAMBDA x :
             [r |-> x.r, events |-> x.events, c |-> context])
    ELSE Let(IF input.kind = "addJSONElement"
             THEN ttsdkjson_addJSONElement(before, input.name, input.data,
                                           input.closeLastContainer, mem)
             ELSE ttsdkjson_addJSONFromFile(before, input.name, input.data, input.opened,
                                            input.closeLastContainer, mem),
             LAMBDA x : [r |-> x.r, events |-> x.run.events, c |-> x.c])

\* The run in iterations returns what the whole call returns.
RunAgrees ==
    step = "returned" =>
        WholeCall = [r |-> decoded.r, events |-> decoded.d.events, c |-> context]

\* A step of a run that has entered a function returns, or leaves less to
\* do; and it reads nothing from a file whose isEOF is set.
Advances ==
    step \in {"element", "loop", "closing"} =>
        /\ Remaining(decoded) >= 0
        /\ RunEnded' \/ Remaining(decoded') < Remaining(decoded)
        /\ (decoded.d.userData.update = "readFile" /\ decoded.d.userData.isEOF) =>
              /\ decoded'.d.userData.offset = decoded.d.userData.offset
              /\ decoded'.d.userData.refills = decoded.d.userData.refills

\* C37: ttsdkjson_decode, ttsdkjson_addJSONElement and
\* ttsdkjson_addJSONFromFile return for every document and file: every
\* iteration of a container loop and of the closing loop either returns or
\* leaves less to do (input not yet passed, containers to close), a file is
\* read no more once isEOF is set, and so every run ends.
C37_EveryRunReturns == [][Advances]_vars /\ <>RunEnded

\* C37 (witness): [1,2,3,4,5,6,7] spliced from a file longer than the
\* window has returned OK after three loads, the last of them short.
C37_Witness ==
    /\ step = "returned"
    /\ input.kind = "addJSONFromFile"
    /\ input.opened
    /\ input.data = <<91, 49, 44, 50, 44, 51, 44, 52, 44, 53, 44, 54, 44, 55, 93>>
    /\ decoded.r = TTSDKJSON_OK
    /\ decoded.d.userData.isEOF
    /\ Len(decoded.d.userData.refills) >= 2
    /\ decoded.d.userData.offset = Len(input.data)

=============================================================================
